---- MODULE Spec2Model ----
(***************************************************************************)
(* Creatrr backend (Convex functions): posts, likes, comments, feed and    *)
(* ranking queries, daily-view analytics.                                  *)
(*                                                                         *)
(* Record Store: every table is a collection of documents with an id that  *)
(* is never reused; documents are kept in creation order.  The store       *)
(* gives single-document atomicity only: each `await ctx.db...` of a       *)
(* handler is one step, and steps of different handler calls may           *)
(* interleave (SpecLikes).  Queries read one snapshot.                     *)
(*                                                                         *)
(* Timestamps are counted in whole days (Date.now() \div 86,400,000).       *)
(***************************************************************************)
EXTENDS Integers, Sequences, FiniteSets, TLC

\* ---------------------------------------------------------------- bounds
\* like documents ever inserted
MaxLikeInserts == 3

\* post documents ever inserted (SpecPosts)
MaxPostInserts == 2
\* days that pass after the first call (SpecPosts)
MaxTicks == 1

\* posts in the store (SpecFeed)
MaxFeedPosts == 12

\* posts in the store (SpecTrending)
MaxTrendPosts == 2
\* largest viewCount and likeCount (SpecTrending)
MaxTrendCount == 1

\* posts in the store (SpecSuggested)
MaxSugPosts == 3
\* largest viewCount (SpecSuggested)
MaxSugViews == 1

\* comments ever inserted (SpecComments)
MaxCommentInserts == 3

\* largest viewCount of a post (SpecDaily)
MaxViews == 2
\* days that pass one by one (SpecDaily)
MaxDailyTicks == 1

\* largest likeCount drawn (SpecAnalytics)
MaxAnalyticsLikes == 1

\* DailyStats rows ever inserted (SpecViews)
MaxStatInserts == 2

\* usernames a caller may ask for besides the malformed ones (SpecUsernames)
MaxUsernames == 2

\* ------------------------------------------------------------- constants
\* args.limit || 10
DefaultLimit == 10
\* 7 * 24 * 60 * 60 * 1000 ms
WeekDays == 7
\* args.content.length > 1000
MaxContentLength == 1000
\* for (let i = 29; i >= 0; i--)
LastOffset == 29
\* .take(5): the posts read per candidate
CandidatePosts == 5
\* totalLikes * 5, followers.length * 10
LikeWeight == 5
FollowerWeight == 10
\* undefined / null for an optional id or number
None == 0

VARIABLES
    users,      \* set of user ids with a user document (id = token identity)
    names,      \* the usernames set: pairs <<user id, username>>
    follows,    \* set of follow documents <<followerId, followingId, createdAt>>
    comments,   \* sequence of comment documents, in creation order
    dailyStats, \* set of dailyStats documents [postId, date, views]
    posts,      \* sequence of post documents, in creation order
    likes,      \* set of like documents [id, postId, userId, createdAt]
    nextId,     \* next document id per table
    now,        \* Date.now(), in days
    calls,      \* toggleLike calls in flight: slot -> frame
    raced,      \* history: (post, user) pairs two calls held at once, and
                \* (post, None) for a post two calls held at once
    hist,       \* history: the last uninterrupted toggleLike calls (<= 2)
    ret         \* the last returned value or thrown error

vars == <<users, names, follows, comments, dailyStats, posts, likes, nextId, now,
          calls, raced, hist, ret>>

\* the tables no posts or likes handler writes
rest == <<names, follows, comments, dailyStats>>

\* two mutation calls may be in flight at once
Slots == {1, 2}

\* 30 * 24 * 60 * 60 * 1000 ms
ThirtyDays == 30
\* the value of 0 / 0
NaN == -1

\* args.username.length < 3 || args.username.length > 20
MinUsernameLength == 3
MaxUsernameLength == 20

\* .take(5) of getRecentActivity: likes and comments per post, followers
ActivityTake == 5
\* args.limit || 5 of getPostsWithAnalytics
DefaultPostsLimit == 5

\* ------------------------------------------------------------ the store
\* one value of the title, content, tags, category, image and schedule of a
\* post
FirstFields == 1

\* ctx.db.get(id) on posts: is there a document, and which
PostExists(ps, id) == \E i \in DOMAIN ps : ps[i].id = id
PostOf(ps, id) == ps[CHOOSE i \in DOMAIN ps : ps[i].id = id]

\* the mutant of IsPublished: any stored post will do
IsStored(ps, id) == PostExists(ps, id)

\* !post || post.status !== "published", negated
IsPublished(ps, id) == IF PostExists(ps, id) THEN PostOf(ps, id).status = "published" ELSE FALSE

\* ctx.db.patch(postId, {likeCount: n})
PatchLikeCount(ps, id, n) ==
    [i \in DOMAIN ps |-> IF ps[i].id = id THEN [ps[i] EXCEPT !.likeCount = n] ELSE ps[i]]

\* a post document as posts.create inserts it; fields stands for its title,
\* content, tags, category, featuredImage and scheduledFor together
NewPost(id, author, status, t) ==
    [id |-> id, authorId |-> author, status |-> status, fields |-> FirstFields,
     createdAt |-> t, updatedAt |-> t,
     publishedAt |-> IF status = "published" THEN t ELSE None,
     viewCount |-> 0, likeCount |-> 0]

\* query("likes").filter(postId = p and userId = u)
LikesOf(ls, p, u) == {l \in ls : l.postId = p /\ l.userId = u}

\* the mutant of NoIdentity: every caller passes for authenticated
NoIdentityNever(identity) == FALSE

\* !identity, for the value of ctx.auth.getUserIdentity()
NoIdentity(identity) == identity = None

\* user.username, None when the document has none
UsernameOf(ns, u) ==
    IF \E n \in ns : n[1] = u THEN (CHOOSE n \in ns : n[1] = u)[2] ELSE None

\* the user document of an identity: users query by tokenIdentifier .unique()
\* (identity None: not authenticated; an identity outside users: no record)
ResolveUser(us, identity) == IF identity \in us THEN identity ELSE None

\* ------------------------------------------------------------ toggleLike
IdleFrame ==
    [pc |-> "idle", postId |-> None, userId |-> None, likeCount |-> 0,
     existing |-> None, solo |-> FALSE, liked0 |-> FALSE]

InFlight(c) == calls[c].pc # "idle"

\* a step of slot c happens while the other slots listed are in flight:
\* none of them ran uninterrupted
Interrupt(cs, c) ==
    [d \in Slots |-> IF d # c /\ cs[d].pc # "idle" THEN [cs[d] EXCEPT !.solo = FALSE] ELSE cs[d]]

ErrorRet(op, msg) == [op |-> op, ok |-> FALSE, error |-> msg]

\* a return value together with the arguments of the call that made it
WithCall(r, call) == r @@ [call |-> call]

\* likes.ts 31-51: read the post, throw unless published, resolve the user
ToggleLikeNotFound(c, p) ==
    /\ ~InFlight(c)
    /\ ~IsPublished(posts, p)
    /\ ret' = WithCall(ErrorRet("toggleLike", "Post not found or not published"),
                       [postId |-> p])
    /\ calls' = Interrupt(calls, c)
    /\ hist' = IF \E d \in Slots : InFlight(d) THEN <<>> ELSE hist
    /\ UNCHANGED <<rest, users, posts, likes, nextId, now, raced>>

ToggleLikeBegin(c, p, argUser, identity) ==
    /\ ~InFlight(c)
    /\ IsPublished(posts, p)
    /\ LET userId == IF argUser # None THEN argUser ELSE ResolveUser(users, identity)
           others == {d \in Slots : d # c /\ InFlight(d)}
       IN /\ calls' = [Interrupt(calls, c) EXCEPT ![c] =
                 [pc |-> "check", postId |-> p, userId |-> userId,
                  likeCount |-> PostOf(posts, p).likeCount, existing |-> None,
                  solo |-> others = {},
                  liked0 |-> LikesOf(likes, p, userId) # {}]]
          /\ raced' = raced
                        \cup (IF userId # None /\ \E d \in others :
                                  calls[d].postId = p /\ calls[d].userId = userId
                              THEN {<<p, userId>>} ELSE {})
                        \cup (IF \E d \in others : calls[d].postId = p
                              THEN {<<p, None>>} ELSE {})
          /\ hist' = IF others = {} THEN hist ELSE <<>>
    /\ UNCHANGED <<rest, users, posts, likes, nextId, now, ret>>

\* a mutant of ExistingLike: a like of any user of the post is found
ExistingLikeOfAnyone(ls, p, u) ==
    IF \E l \in ls : l.postId = p
    THEN (CHOOSE l \in ls : l.postId = p).id ELSE None

\* the mutant of ExistingLike: the call never looks for an existing like
ExistingLikeUnchecked(ls, p, u) == None

\* likes.ts 54-65: existingLike, null without a user or without a match
ExistingLike(ls, p, u) ==
    IF u # None /\ LikesOf(ls, p, u) # {}
    THEN (CHOOSE l \in LikesOf(ls, p, u) : TRUE).id ELSE None

\* likes.ts 53-65: look the like up; .unique() throws on more than one match
ToggleLikeCheck(c) ==
    /\ calls[c].pc = "check"
    /\ LET f == calls[c]
           found == LikesOf(likes, f.postId, f.userId)
       IN IF f.userId # None /\ Cardinality(found) > 1
          THEN /\ calls' = [Interrupt(calls, c) EXCEPT ![c] = IdleFrame]
               /\ ret' = ErrorRet("toggleLike", "unique() returned more than one result")
               /\ hist' = <<>>
          ELSE /\ calls' = [Interrupt(calls, c) EXCEPT ![c] =
                      [f EXCEPT !.pc = "write",
                                !.existing = ExistingLike(likes, f.postId, f.userId)]]
               /\ UNCHANGED <<ret, hist>>
    /\ UNCHANGED <<rest, users, posts, likes, nextId, now, raced>>

\* likes.ts 67-69 and 77-83: delete the like found, or insert a new one
ToggleLikeWrite(c) ==
    /\ calls[c].pc = "write"
    /\ LET f == calls[c]
       IN IF f.existing # None
          THEN IF \E l \in likes : l.id = f.existing
               THEN /\ likes' = {l \in likes : l.id # f.existing}
                    /\ calls' = [Interrupt(calls, c) EXCEPT ![c] = [f EXCEPT !.pc = "patch"]]
                    /\ UNCHANGED <<nextId, ret, hist>>
               ELSE \* ctx.db.delete of a document already deleted throws
                    /\ calls' = [Interrupt(calls, c) EXCEPT ![c] = IdleFrame]
                    /\ ret' = ErrorRet("toggleLike", "Delete on nonexistent document")
                    /\ hist' = <<>>
                    /\ UNCHANGED <<likes, nextId>>
          ELSE /\ nextId.likes <= MaxLikeInserts
               /\ likes' = likes \cup {[id |-> nextId.likes, postId |-> f.postId, userId |-> f.userId,
                                       createdAt |-> now]}
               /\ nextId' = [nextId EXCEPT !.likes = @ + 1]
               /\ calls' = [Interrupt(calls, c) EXCEPT ![c] = [f EXCEPT !.pc = "patch"]]
               /\ UNCHANGED <<ret, hist>>
    /\ UNCHANGED <<rest, users, posts, now, raced>>

\* the mutant of Decremented: no floor at 0
DecrementedUnfloored(n) == n - 1

\* Math.max(0, post.likeCount - 1)
Decremented(n) == IF n - 1 > 0 THEN n - 1 ELSE 0

\* the mutant of Incremented: the count read is written back
IncrementedStale(n) == n

\* post.likeCount + 1
Incremented(n) == n + 1

\* the mutant of ToggleLikeResponse: the state before the operation
ToggleLikeResponseBefore(liked, read) == [liked |-> ~liked, likeCount |-> read]

\* likes.ts 76, 90: the value returned, computed from the post read at the
\* start
ToggleLikeResponse(liked, read) ==
    [liked |-> liked,
     likeCount |-> IF liked THEN Incremented(read) ELSE Decremented(read)]

\* likes.ts 71-76 and 85-90: patch likeCount from the post read at the start
\* and return
ToggleLikePatch(c) ==
    /\ calls[c].pc = "patch"
    /\ LET f == calls[c]
           liked == f.existing = None
           n == IF liked THEN Incremented(f.likeCount) ELSE Decremented(f.likeCount)
       IN /\ posts' = PatchLikeCount(posts, f.postId, n)
          /\ ret' = [op |-> "toggleLike", ok |-> TRUE, postId |-> f.postId,
                     userId |-> f.userId,
                     liked |-> ToggleLikeResponse(liked, f.likeCount).liked,
                     likeCount |-> ToggleLikeResponse(liked, f.likeCount).likeCount,
                     read |-> f.likeCount,
                     stored |-> PostOf(posts', f.postId).likeCount]
          /\ hist' = IF f.solo
                     THEN (IF Len(hist) = 2 THEN Tail(hist) ELSE hist) \o
                          <<[postId |-> f.postId, userId |-> f.userId,
                             likedBefore |-> f.liked0, countBefore |-> f.likeCount,
                             likedAfter |-> LikesOf(likes, f.postId, f.userId) # {},
                             countAfter |-> n]>>
                     ELSE <<>>
    /\ calls' = [Interrupt(calls, c) EXCEPT ![c] = IdleFrame]
    /\ UNCHANGED <<rest, users, likes, nextId, now, raced>>

\* ----------------------------------------------------------------- posts
\* query("posts").filter(authorId = u and status = "draft"), as indices
DraftsOf(ps, u) == {i \in DOMAIN ps : ps[i].authorId = u /\ ps[i].status = "draft"}

\* the mutant of Without: the table is emptied
WithoutAny(ps, id) == <<>>

\* the sequence without the document id
Without(ps, id) == SelectSeq(ps, LAMBDA d : d.id # id)

\* ctx.db.patch(id, fields) on posts: doc with the fields of the patch
PatchPost(ps, id, status, updatedAt, publishedAt) ==
    [i \in DOMAIN ps |->
        IF ps[i].id = id
        THEN [ps[i] EXCEPT !.status = status, !.updatedAt = updatedAt,
                           !.publishedAt = publishedAt]
        ELSE ps[i]]

\* ctx.db.patch(id, fields) on posts: the document replaced by its patched
\* version
ReplacePost(ps, doc) == [i \in DOMAIN ps |-> IF ps[i].id = doc.id THEN doc ELSE ps[i]]

\* part_000 53-66: the patch that publishes the existing draft
PublishedDraft(d, fields, t) ==
    [d EXCEPT !.fields = fields, !.status = "published", !.updatedAt = t,
              !.publishedAt = t]

\* part_000 69-80: the patch that saves the existing draft again
SavedDraft(d, fields, t) == [d EXCEPT !.fields = fields, !.updatedAt = t]

\* posts.create (part_000 29-100); fields stands for the title, content,
\* tags, category, featuredImage and scheduledFor arguments
Create(identity, status, fields) ==
    LET call == [identity |-> identity, status |-> status, fields |-> fields]
    IN
    IF NoIdentity(identity)
    THEN /\ ret' = WithCall(ErrorRet("create", "Not authenticated"), call)
         /\ UNCHANGED <<rest, users, posts, likes, nextId, now, calls, raced, hist>>
    ELSE IF ResolveUser(users, identity) = None
    THEN /\ ret' = WithCall(ErrorRet("create", "User not found"), call)
         /\ UNCHANGED <<rest, users, posts, likes, nextId, now, calls, raced, hist>>
    ELSE LET user == ResolveUser(users, identity)
             drafts == DraftsOf(posts, user)
         IN IF Cardinality(drafts) > 1
            THEN \* existingDraft: .unique() throws on more than one match
                 /\ ret' = WithCall(ErrorRet("create",
                                             "unique() returned more than one result"), call)
                 /\ UNCHANGED <<rest, users, posts, likes, nextId, now, calls, raced, hist>>
            ELSE IF drafts # {}
            THEN LET d == posts[CHOOSE i \in drafts : TRUE]
                 IN /\ posts' = IF status = "published"
                                 THEN ReplacePost(posts, PublishedDraft(d, fields, now))
                                 ELSE ReplacePost(posts, SavedDraft(d, fields, now))
                    /\ ret' = WithCall([op |-> "create", ok |-> TRUE, id |-> d.id,
                                        inserted |-> FALSE], call)
                    /\ UNCHANGED <<rest, users, likes, nextId, now, calls, raced, hist>>
            ELSE /\ nextId.posts <= MaxPostInserts
                 /\ posts' = Append(posts, [NewPost(nextId.posts, user, status, now)
                                                EXCEPT !.fields = fields])
                 /\ nextId' = [nextId EXCEPT !.posts = @ + 1]
                 /\ ret' = WithCall([op |-> "create", ok |-> TRUE, id |-> nextId.posts,
                                     inserted |-> TRUE], call)
                 /\ UNCHANGED <<rest, users, likes, now, calls, raced, hist>>

\* the mutant of IsAuthor: no authorization
IsAuthorAlways(post, user) == TRUE

\* part_000 129, 243: post.authorId !== user._id throws "Not authorized"
IsAuthor(post, user) == post.authorId = user

\* a mutant of UpdatedPublishedAt: no update stamps the post
UpdatedPublishedAtNever(post, argStatus, t) == post.publishedAt

\* the mutant of UpdatedPublishedAt: every update to published stamps the post
UpdatedPublishedAtAlways(post, argStatus, t) ==
    IF argStatus = "published" THEN t ELSE post.publishedAt

\* part_000 147-154: publishedAt of the patch (absent: the field is kept)
UpdatedPublishedAt(post, argStatus, t) ==
    IF argStatus = "published" /\ post.status = "draft" THEN t ELSE post.publishedAt

\* posts.update (part_000 115-158); argStatus "unset": args.status undefined,
\* as the title, content, tags, category, featuredImage and scheduledFor
\* arguments are in every call, so the fields of the post are kept;
\* the return recorded names the caller too
Update(identity, id, argStatus) ==
    IF NoIdentity(identity)
    THEN /\ ret' = ErrorRet("update", "Not authenticated")
         /\ UNCHANGED <<rest, users, posts, likes, nextId, now, calls, raced, hist>>
    ELSE IF ResolveUser(users, identity) = None
    THEN /\ ret' = ErrorRet("update", "User not found")
         /\ UNCHANGED <<rest, users, posts, likes, nextId, now, calls, raced, hist>>
    ELSE IF ~PostExists(posts, id)
    THEN /\ ret' = ErrorRet("update", "Post not found")
         /\ UNCHANGED <<rest, users, posts, likes, nextId, now, calls, raced, hist>>
    ELSE IF ~IsAuthor(PostOf(posts, id), ResolveUser(users, identity))
    THEN /\ ret' = ErrorRet("update", "Not authorized")
         /\ UNCHANGED <<rest, users, posts, likes, nextId, now, calls, raced, hist>>
    ELSE LET post == PostOf(posts, id)
         IN /\ posts' = PatchPost(posts, id,
                            IF argStatus # "unset" THEN argStatus ELSE post.status,
                            now, UpdatedPublishedAt(post, argStatus, now))
            /\ ret' = [op |-> "update", ok |-> TRUE, id |-> id,
                       userId |-> ResolveUser(users, identity)]
            /\ UNCHANGED <<rest, users, likes, nextId, now, calls, raced, hist>>

\* posts.deletePost (part_000 230-248)
DeletePost(identity, id) ==
    IF NoIdentity(identity)
    THEN /\ ret' = ErrorRet("deletePost", "Not authenticated")
         /\ UNCHANGED <<rest, users, posts, likes, nextId, now, calls, raced, hist>>
    ELSE IF ResolveUser(users, identity) = None
    THEN /\ ret' = ErrorRet("deletePost", "User not found")
         /\ UNCHANGED <<rest, users, posts, likes, nextId, now, calls, raced, hist>>
    ELSE IF ~PostExists(posts, id)
    THEN /\ ret' = ErrorRet("deletePost", "Post not found")
         /\ UNCHANGED <<rest, users, posts, likes, nextId, now, calls, raced, hist>>
    ELSE IF ~IsAuthor(PostOf(posts, id), ResolveUser(users, identity))
    THEN /\ ret' = ErrorRet("deletePost", "Not authorized")
         /\ UNCHANGED <<rest, users, posts, likes, nextId, now, calls, raced, hist>>
    ELSE /\ posts' = Without(posts, id)
         /\ ret' = [op |-> "deletePost", ok |-> TRUE, id |-> id,
                    userId |-> ResolveUser(users, identity)]
         /\ UNCHANGED <<rest, users, likes, nextId, now, calls, raced, hist>>

\* time passes between calls
Tick(last) ==
    /\ now < last
    /\ now' = now + 1
    /\ UNCHANGED <<rest, users, posts, likes, nextId, calls, raced, hist, ret>>

\* ------------------------------------------------------------- SpecPosts
\* users 1 and 2 have a record, identity 3 has none; no posts yet
PostUsers == {1, 2}
\* callers that fail before any argument is read
NoUserIdentities == {None, 3}
PostIds == 1..MaxPostInserts
FirstDay == 1

InitPosts ==
    /\ names = {} /\ follows = {} /\ comments = <<>> /\ dailyStats = {}
    /\ users = PostUsers
    /\ now = FirstDay
    /\ posts = <<>>
    /\ likes = {}
    /\ nextId = [posts |-> 1, likes |-> 1, comments |-> 1, stats |-> 1]
    /\ calls = [c \in Slots |-> IdleFrame]
    /\ raced = {}
    /\ hist = <<>>
    /\ ret = [op |-> "none", ok |-> TRUE]

NextPosts ==
    \/ \E i \in PostUsers, st \in {"draft", "published"} : Create(i, st, FirstFields)
    \/ \E i \in NoUserIdentities : Create(i, "draft", FirstFields)
    \/ \E i \in PostUsers, id \in PostIds, st \in {"unset", "draft", "published"} :
           Update(i, id, st)
    \/ \E i \in NoUserIdentities : Update(i, 1, "unset")
    \/ \E i \in PostUsers, id \in PostIds : DeletePost(i, id)
    \/ \E i \in NoUserIdentities : DeletePost(i, 1)
    \/ Tick(FirstDay + MaxTicks)

SpecPosts == InitPosts /\ [][NextPosts]_vars

\* C4: each author owns at most one draft, after any sequence of
\* posts.create, posts.update and posts.deletePost calls.
C4_OneDraftPerAuthor ==
    \A u \in PostUsers : Cardinality(DraftsOf(posts, u)) <= 1

\* C5 (as stated): once publishedAt of a post has a value, no later call
\* changes it.
C5_PublishedAtSetOnce ==
    [][\A i \in DOMAIN posts :
          (posts[i].publishedAt # None /\ PostExists(posts', posts[i].id))
              => PostOf(posts', posts[i].id).publishedAt = posts[i].publishedAt]_vars

\* C5 (amended): a call sets publishedAt of a post to the time of the call
\* when it moves the post from draft to published, on every such
\* transition, and no other call changes publishedAt.
C5_PublishedAtSetOnPublish ==
    [][\A i \in DOMAIN posts :
          PostExists(posts', posts[i].id) =>
              PostOf(posts', posts[i].id).publishedAt =
                  IF posts[i].status = "draft"
                     /\ PostOf(posts', posts[i].id).status = "published"
                  THEN now ELSE posts[i].publishedAt]_vars

\* a published post was updated after its publication and kept publishedAt
C5_Witness ==
    \E i \in DOMAIN posts :
        /\ posts[i].status = "published"
        /\ posts[i].publishedAt # None
        /\ posts[i].updatedAt > posts[i].publishedAt
        /\ ret.op = "update" /\ ret.ok /\ ret.id = posts[i].id

\* C27: every published post has a publishedAt, after any sequence of
\* posts.create, posts.update and posts.deletePost calls.
C27_PublishedHasPublishedAt ==
    \A i \in DOMAIN posts : posts[i].status = "published" => posts[i].publishedAt # None

\* a post saved as a draft one day was published by posts.update the next
C27_Witness ==
    /\ ret.op = "update" /\ ret.ok
    /\ PostExists(posts, ret.id)
    /\ PostOf(posts, ret.id).status = "published"
    /\ PostOf(posts, ret.id).publishedAt = now
    /\ PostOf(posts, ret.id).createdAt < now

\* C14 (a step that leaves the clock alone is a call, and ret' its return):
\* a posts.update or posts.deletePost call succeeds only for the
\* author of the post; a call that fails, for lack of authorization or
\* otherwise, leaves every post document and the set of posts unchanged.
C14_NonAuthorHasNoEffect ==
    [][(now' = now /\ ret'.op \in {"update", "deletePost"}) =>
          IF ret'.ok
          THEN /\ PostExists(posts, ret'.id)
               /\ PostOf(posts, ret'.id).authorId = ret'.userId
          ELSE posts' = posts]_vars

\* a user who is not the author was refused, and the post of the other
\* user, updated on an earlier day, is in the store
C14_Witness ==
    /\ ret.op \in {"update", "deletePost"} /\ ~ret.ok
    /\ ret.error = "Not authorized"
    /\ \E i \in DOMAIN posts : posts[i].updatedAt < now

\* --------------------------------------------------------------- queries
Min(a, b) == IF a < b THEN a ELSE b

\* .order("desc"): newest document first
Reverse(sq) == [i \in 1..Len(sq) |-> sq[Len(sq) + 1 - i]]

\* .take(n) and .slice(0, n)
Take(sq, n) == SubSeq(sq, 1, Min(n, Len(sq)))

\* args.limit || 10 (an absent limit and the limit 0 are both None)
LimitOf(argLimit) == IF argLimit = None THEN DefaultLimit ELSE argLimit

\* the user document is deleted outside the handlers of this module ("deleted
\* user", "dangling reference" of the specification); a result returned
\* before is no result of the store as it is now
RemoveUser(u) ==
    /\ u \in users
    /\ users' = users \ {u}
    /\ ret' = [op |-> "none", ok |-> TRUE]
    /\ UNCHANGED <<rest, posts, likes, nextId, now, calls, raced, hist>>

\* the mutant of FeedFetched: take(limit) instead of take(limit + 1)
FeedFetchedNoLookahead(ps, limit) ==
    Take(SelectSeq(Reverse(ps), LAMBDA d : d.status = "published"), limit)

\* part_000 316-320: the newest limit + 1 published posts
FeedFetched(ps, limit) ==
    Take(SelectSeq(Reverse(ps), LAMBDA d : d.status = "published"), limit + 1)

\* part_000 327-347: posts whose author document exists
WithAuthor(sq, us) == SelectSeq(sq, LAMBDA d : d.authorId \in us)

\* getFeed (part_000 313-350)
GetFeed(argLimit) ==
    /\ LET limit == LimitOf(argLimit)
           allPosts == FeedFetched(posts, limit)
           hasMore == Len(allPosts) > limit
           feedPosts == IF hasMore THEN Take(allPosts, limit) ELSE allPosts
           result == WithAuthor(feedPosts, users)
       IN ret' = [op |-> "getFeed", ok |-> TRUE, limit |-> argLimit,
                  posts |-> [i \in 1..Len(result) |-> result[i].id],
                  hasMore |-> hasMore]
    /\ UNCHANGED <<rest, users, posts, likes, nextId, now, calls, raced, hist>>

\* ------------------------------------------------------ getTrendingPosts
\* the mutant of RecentPublished: published at any time
RecentPublishedAnyTime(ps, weekAgo) ==
    SelectSeq(ps, LAMBDA d : d.status = "published")

\* part_000 485-493: published posts with publishedAt >= weekAgo (an
\* absent publishedAt is not >= any number)
RecentPublished(ps, weekAgo) ==
    SelectSeq(ps, LAMBDA d : /\ d.status = "published"
                             /\ d.publishedAt # None
                             /\ d.publishedAt >= weekAgo)

\* part_000 500
TrendingScore(d) == d.viewCount + d.likeCount * 3

\* the mutant of TrendCompare: ascending
TrendCompareAscending(a, b) == TrendingScore(a) - TrendingScore(b)

\* part_000 506: the comparator, negative when a sorts before b
TrendCompare(a, b) == TrendingScore(b) - TrendingScore(a)

\* Array.prototype.sort with TrendCompare: stable, x goes behind every
\* element that does not sort after it
TrendInsert(sorted, x) ==
    LET k == Cardinality({i \in DOMAIN sorted : TrendCompare(sorted[i], x) <= 0})
    IN SubSeq(sorted, 1, k) \o <<x>> \o SubSeq(sorted, k + 1, Len(sorted))

RECURSIVE TrendSort(_)
TrendSort(sq) ==
    IF sq = <<>> THEN <<>>
    ELSE TrendInsert(TrendSort(SubSeq(sq, 1, Len(sq) - 1)), sq[Len(sq)])

\* getTrendingPosts (part_000 477-535)
GetTrendingPosts(argLimit) ==
    /\ LET limit == LimitOf(argLimit)
           weekAgo == now - WeekDays
           trendingPosts == Take(TrendSort(RecentPublished(posts, weekAgo)), limit)
           result == WithAuthor(trendingPosts, users)
       IN ret' = [op |-> "getTrendingPosts", ok |-> TRUE, limit |-> argLimit,
                  posts |-> [i \in 1..Len(result) |->
                                [id |-> result[i].id,
                                 trendingScore |-> TrendingScore(result[i])]]]
    /\ UNCHANGED <<rest, users, posts, likes, nextId, now, calls, raced, hist>>

\* ----------------------------------------------------- getSuggestedUsers
\* the user documents in creation order
RECURSIVE InOrder(_)
InOrder(us) ==
    IF us = {} THEN <<>>
    ELSE LET least == CHOOSE u \in us : \A w \in us : u <= w
         IN <<least>> \o InOrder(us \ {least})

RECURSIVE SumOf(_, _)
SumOf(sq, field) ==
    IF sq = <<>> THEN 0 ELSE sq[1][field] + SumOf(Tail(sq), field)

\* part_000 402-449: the statistics of one candidate
Suggestion(u) ==
    LET published == SelectSeq(posts, LAMBDA d : d.authorId = u /\ d.status = "published")
        taken == Take(Reverse(published), CandidatePosts)
        followers == {f \in follows : f[2] = u}
    IN [id |-> u,
        followerCount |-> Cardinality(followers),
        postCount |-> Len(taken),
        engagementScore |-> SumOf(taken, "viewCount")
                            + SumOf(taken, "likeCount") * LikeWeight
                            + Cardinality(followers) * FollowerWeight,
        lastPostAt |-> IF Len(taken) > 0 THEN taken[1].publishedAt ELSE None]

\* the mutant of SuggestCompare: by engagementScore alone
SuggestCompareByScore(a, b, t) == b.engagementScore - a.engagementScore

\* part_000 455-467: the comparator, negative when a sorts before b
SuggestCompare(a, b, t) ==
    LET aRecent == a.lastPostAt > t - WeekDays
        bRecent == b.lastPostAt > t - WeekDays
    IN IF aRecent /\ ~bRecent THEN -1
       ELSE IF ~aRecent /\ bRecent THEN 1
       ELSE b.engagementScore - a.engagementScore

\* Array.prototype.sort with SuggestCompare: stable
SuggestInsert(sorted, x, t) ==
    LET k == Cardinality({i \in DOMAIN sorted : SuggestCompare(sorted[i], x, t) <= 0})
    IN SubSeq(sorted, 1, k) \o <<x>> \o SubSeq(sorted, k + 1, Len(sorted))

RECURSIVE SuggestSort(_, _)
SuggestSort(sq, t) ==
    IF sq = <<>> THEN <<>>
    ELSE SuggestInsert(SuggestSort(SubSeq(sq, 1, Len(sq) - 1), t), sq[Len(sq)], t)

\* the mutant of Candidates: every user is offered
CandidatesUnfiltered(identity) == InOrder(users)

\* part_000 360-401: the users a caller is offered: not the caller, not
\* followed by the caller, with a username
Candidates(identity) ==
    LET currentUser == IF NoIdentity(identity) THEN None ELSE ResolveUser(users, identity)
        followedUserIds == {f[2] : f \in {g \in follows : g[1] = currentUser}}
    IN SelectSeq(InOrder(users),
                 LAMBDA u : u # currentUser /\ u \notin followedUserIds
                            /\ UsernameOf(names, u) # None)

\* getSuggestedUsers (part_000 354-472)
GetSuggestedUsers(identity, argLimit) ==
    /\ LET limit == LimitOf(argLimit)
           candidates == Candidates(identity)
           suggestions == [i \in 1..Len(candidates) |-> Suggestion(candidates[i])]
           withPosts == SelectSeq(suggestions, LAMBDA x : x.postCount > 0)
           rankedSuggestions == Take(SuggestSort(withPosts, now), limit)
       IN ret' = [op |-> "getSuggestedUsers", ok |-> TRUE, at |-> now,
                  identity |-> identity, limit |-> argLimit,
                  users |-> rankedSuggestions]
    /\ UNCHANGED <<rest, users, posts, likes, nextId, now, calls, raced, hist>>

\* time passes between calls, up to the given day
SleepTo(day) ==
    /\ now < day
    /\ now' = day
    /\ UNCHANGED <<rest, users, posts, likes, nextId, calls, raced, hist, ret>>

\* -------------------------------------------------------------- comments
CommentOf(cs, id) == cs[CHOOSE i \in DOMAIN cs : cs[i].id = id]
CommentExists(cs, id) == \E i \in DOMAIN cs : cs[i].id = id

\* the mutant of ValidContent: the content is not trimmed before the test
ValidContentUntrimmed(content) ==
    ~(content.length = 0 \/ content.length > MaxContentLength)

\* comments.ts 62: a content argument is its length and its length after
\* trim()
ValidContent(content) ==
    ~(content.trimmed = 0 \/ content.length > MaxContentLength)

\* addComment (comments.ts 40-77)
AddComment(identity, postId, content) ==
    LET call == [identity |-> identity, postId |-> postId, content |-> content]
    IN
    IF NoIdentity(identity)
    THEN /\ ret' = WithCall(ErrorRet("addComment", "Must be logged in to comment"), call)
         /\ UNCHANGED <<rest, users, posts, likes, nextId, now, calls, raced, hist>>
    ELSE IF ResolveUser(users, identity) = None
    THEN /\ ret' = WithCall(ErrorRet("addComment", "User not found"), call)
         /\ UNCHANGED <<rest, users, posts, likes, nextId, now, calls, raced, hist>>
    ELSE IF ~IsPublished(posts, postId)
    THEN /\ ret' = WithCall(ErrorRet("addComment", "Post not found or not published"), call)
         /\ UNCHANGED <<rest, users, posts, likes, nextId, now, calls, raced, hist>>
    ELSE IF ~ValidContent(content)
    THEN /\ ret' = WithCall(ErrorRet("addComment",
                                     "Comment must be between 1-1000 characters"), call)
         /\ UNCHANGED <<rest, users, posts, likes, nextId, now, calls, raced, hist>>
    ELSE /\ nextId.comments <= MaxCommentInserts
         /\ comments' = Append(comments,
                           [id |-> nextId.comments, postId |-> postId,
                            authorId |-> ResolveUser(users, identity),
                            content |-> content.trimmed,
                            status |-> "approved", createdAt |-> now])
         /\ nextId' = [nextId EXCEPT !.comments = @ + 1]
         /\ ret' = WithCall([op |-> "addComment", ok |-> TRUE, id |-> nextId.comments],
                            call)
         /\ UNCHANGED <<names, follows, dailyStats, users, posts, likes, now,
                        calls, raced, hist>>

\* the mutant of CanDelete: any user may delete
CanDeleteAnyone(comment, post, user) == TRUE

\* comments.ts 157-158: the comment's author or the post's owner
CanDelete(comment, post, user) ==
    comment.authorId = user \/ post.authorId = user

\* deleteComment (comments.ts 131-166); besides {success: true} the return
\* recorded names the caller, the comment deleted, its author and the
\* owner of its post; the error for a missing post names the comment too
DeleteComment(identity, commentId) ==
    IF NoIdentity(identity)
    THEN /\ ret' = ErrorRet("deleteComment", "Not authenticated") @@ [identity |-> identity]
         /\ UNCHANGED <<rest, users, posts, likes, nextId, now, calls, raced, hist>>
    ELSE IF ResolveUser(users, identity) = None
    THEN /\ ret' = ErrorRet("deleteComment", "User not found") @@ [identity |-> identity]
         /\ UNCHANGED <<rest, users, posts, likes, nextId, now, calls, raced, hist>>
    ELSE IF ~CommentExists(comments, commentId)
    THEN /\ ret' = ErrorRet("deleteComment", "Comment not found") @@ [identity |-> identity]
         /\ UNCHANGED <<rest, users, posts, likes, nextId, now, calls, raced, hist>>
    ELSE IF ~PostExists(posts, CommentOf(comments, commentId).postId)
    THEN /\ ret' = ErrorRet("deleteComment", "Post not found")
                   @@ [identity |-> identity, commentId |-> commentId]
         /\ UNCHANGED <<rest, users, posts, likes, nextId, now, calls, raced, hist>>
    ELSE LET user == ResolveUser(users, identity)
             comment == CommentOf(comments, commentId)
             canDelete == CanDelete(comment, PostOf(posts, comment.postId), user)
         IN IF ~canDelete
            THEN /\ ret' = ErrorRet("deleteComment", "Not authorized to delete this comment")
                           @@ [identity |-> identity]
                 /\ UNCHANGED <<rest, users, posts, likes, nextId, now, calls, raced, hist>>
            ELSE /\ comments' = SelectSeq(comments, LAMBDA c : c.id # commentId)
                 /\ ret' = [op |-> "deleteComment", ok |-> TRUE, success |-> TRUE,
                            identity |-> identity,
                            userId |-> user, commentId |-> commentId,
                            commentAuthor |-> comment.authorId,
                            postAuthor |-> PostOf(posts, comment.postId).authorId]
                 /\ UNCHANGED <<names, follows, dailyStats, users, posts, likes,
                                nextId, now, calls, raced, hist>>

\* the mutant of CommentsWithAuthor: comments of missing authors are kept
CommentsUnfiltered(cs, us) ==
    [i \in DOMAIN cs |->
        [id |-> cs[i].id, postId |-> cs[i].postId, authorId |-> cs[i].authorId,
         status |-> cs[i].status,
         author |-> IF cs[i].authorId \in us THEN cs[i].authorId ELSE None]]

\* comments.ts 98-120: each comment with its author, or null when the user
\* document is missing; those with a null author are dropped
CommentsWithAuthor(cs, us) ==
    LET commentsWithUsers ==
            [i \in DOMAIN cs |->
                [id |-> cs[i].id, postId |-> cs[i].postId, authorId |-> cs[i].authorId,
                 status |-> cs[i].status,
                 author |-> IF cs[i].authorId # None /\ cs[i].authorId \in us
                            THEN cs[i].authorId ELSE None]]
    IN SelectSeq(commentsWithUsers, LAMBDA c : c.author # None)

\* getPostComments (comments.ts 83-121)
GetPostComments(postId) ==
    /\ LET found == SelectSeq(comments,
                        LAMBDA c : c.postId = postId /\ c.status = "approved")
       IN ret' = [op |-> "getPostComments", ok |-> TRUE, postId |-> postId,
                  comments |-> CommentsWithAuthor(found, users)]
    /\ UNCHANGED <<rest, users, posts, likes, nextId, now, calls, raced, hist>>

\* ------------------------------------------------------------ daily views
\* Dates. now counts days, day 0 being January 1 of EpochYear; the runtime
\* the functions run in keeps its clock in UTC, so the local fields read by
\* getDate/setDate and the date printed by toISOString are the same day. A
\* date string "YYYY-MM-DD" is the tuple <<year, month, day>>.
EpochYear == 2024
IsLeap(y) == (y % 4 = 0 /\ y % 100 # 0) \/ y % 400 = 0
DaysInMonth(y, m) ==
    IF m = 2 THEN (IF IsLeap(y) THEN 29 ELSE 28)
    ELSE IF m \in {4, 6, 9, 11} THEN 30 ELSE 31

\* the date n days after the first of month m of year y, n of either sign:
\* the normalisation Date applies to out-of-range day numbers
RECURSIVE CivilFrom(_, _, _)
CivilFrom(y, m, n) ==
    IF n < 0
    THEN LET py == IF m = 1 THEN y - 1 ELSE y
             pm == IF m = 1 THEN 12 ELSE m - 1
         IN CivilFrom(py, pm, n + DaysInMonth(py, pm))
    ELSE IF n >= DaysInMonth(y, m)
    THEN CivilFrom(IF m = 12 THEN y + 1 ELSE y, IF m = 12 THEN 1 ELSE m + 1,
                   n - DaysInMonth(y, m))
    ELSE <<y, m, n + 1>>

\* new Date() at day t, as toISOString().split("T")[0] prints it
DateOf(t) == CivilFrom(EpochYear, 1, t)

\* the mutant of SetDate: the day number is stored as given
SetDateUnnormalised(date, v) == <<date[1], date[2], v>>

\* date.setDate(v)
SetDate(date, v) == CivilFrom(date[1], date[2], v - 1)

\* incrementViewCount (public.ts 133-176), a call that runs alone; the
\* return recorded names the post of the call
IncrementViewCount(postId) ==
    IF ~IsPublished(posts, postId)
    THEN /\ ret' = [op |-> "incrementViewCount", ok |-> TRUE, success |-> FALSE,
                    postId |-> postId]
         /\ UNCHANGED <<rest, users, posts, likes, nextId, now, calls, raced, hist>>
    ELSE LET post == PostOf(posts, postId)
             today == DateOf(now)
             existingStats == {r \in dailyStats : r.postId = postId /\ r.date = today}
         IN /\ post.viewCount < MaxViews
            /\ posts' = [i \in DOMAIN posts |->
                            IF posts[i].id = postId
                            THEN [posts[i] EXCEPT !.viewCount = post.viewCount + 1]
                            ELSE posts[i]]
            /\ IF Cardinality(existingStats) > 1
               THEN \* existingStats: .unique() throws on more than one match
                    /\ ret' = ErrorRet("incrementViewCount",
                                       "unique() returned more than one result")
                               @@ [postId |-> postId]
                    /\ UNCHANGED <<dailyStats, nextId>>
               ELSE IF existingStats # {}
               THEN LET r == CHOOSE r \in existingStats : TRUE
                    IN /\ dailyStats' = (dailyStats \ {r})
                                            \cup {[r EXCEPT !.views = r.views + 1]}
                       /\ ret' = [op |-> "incrementViewCount", ok |-> TRUE,
                                  success |-> TRUE, postId |-> postId]
                       /\ UNCHANGED nextId
               ELSE /\ dailyStats' = dailyStats \cup
                          {[id |-> nextId.stats, postId |-> postId, date |-> today,
                            views |-> 1]}
                    /\ nextId' = [nextId EXCEPT !.stats = @ + 1]
                    /\ ret' = [op |-> "incrementViewCount", ok |-> TRUE,
                               success |-> TRUE, postId |-> postId]
            /\ UNCHANGED <<names, follows, comments, users, likes, now,
                           calls, raced, hist>>

RECURSIVE SumViews(_)
SumViews(rows) ==
    IF rows = {} THEN 0
    ELSE LET r == CHOOSE r \in rows : TRUE IN r.views + SumViews(rows \ {r})

\* users.ts 476-492: the views of the rows of the given posts, by date
ViewsByDate(postIds, date) ==
    SumViews({r \in dailyStats : r.postId \in postIds /\ r.date = date})

\* getDailyViews (users.ts 434-502); the weekday and month-day labels of an
\* entry are renderings of its date and are left out
GetDailyViews(identity) ==
    IF NoIdentity(identity)
    THEN /\ ret' = ErrorRet("getDailyViews", "Not authenticated") @@ [identity |-> identity]
         /\ UNCHANGED <<rest, users, posts, likes, nextId, now, calls, raced, hist>>
    ELSE IF ResolveUser(users, identity) = None
    THEN /\ ret' = ErrorRet("getDailyViews", "User not found") @@ [identity |-> identity]
         /\ UNCHANGED <<rest, users, posts, likes, nextId, now, calls, raced, hist>>
    ELSE LET user == ResolveUser(users, identity)
             postIds == {posts[i].id : i \in {j \in DOMAIN posts : posts[j].authorId = user}}
             today == DateOf(now)
             days == [k \in 1..(LastOffset + 1) |->
                         SetDate(today, today[3] - (LastOffset + 1 - k))]
             chartData == [k \in DOMAIN days |->
                              [date |-> days[k], views |-> ViewsByDate(postIds, days[k])]]
         IN /\ ret' = [op |-> "getDailyViews", ok |-> TRUE, at |-> now,
                       identity |-> identity,
                       userId |-> user, days |-> chartData]
            /\ UNCHANGED <<rest, users, posts, likes, nextId, now, calls, raced, hist>>

\* ------------------------------------------------------------- analytics
\* the mutant of Growth: the division is not guarded
GrowthUnguarded(recent, total) ==
    IF total = 0 THEN NaN ELSE (2000 * recent + total) \div (2 * total)

\* users.ts 245-248, 257-258: Math.round((recent / total) * 100 * 10) / 10
\* when total > 0, else 0; the value is held in tenths of a percent
Growth(recent, total) ==
    IF total > 0 THEN (2000 * recent + total) \div (2 * total) ELSE 0

\* getAnalytics (users.ts 174-261)
GetAnalytics(identity) ==
    /\ IF NoIdentity(identity) \/ ResolveUser(users, identity) = None
       THEN ret' = [op |-> "getAnalytics", ok |-> TRUE, identity |-> identity,
                    isNull |-> TRUE]
       ELSE LET user == ResolveUser(users, identity)
                userPosts == SelectSeq(posts, LAMBDA d : d.authorId = user)
                followersCount == {f \in follows : f[2] = user}
                totalViews == SumOf(userPosts, "viewCount")
                totalLikes == SumOf(userPosts, "likeCount")
                totalComments ==
                    Len(SelectSeq(comments,
                            LAMBDA c : /\ \E i \in DOMAIN userPosts : userPosts[i].id = c.postId
                                       /\ c.status = "approved"))
                thirtyDaysAgo == now - ThirtyDays
                recentPosts == SelectSeq(userPosts, LAMBDA d : d.createdAt > thirtyDaysAgo)
            IN ret' = [op |-> "getAnalytics", ok |-> TRUE, identity |-> identity,
                       isNull |-> FALSE, userId |-> user,
                       totalViews |-> totalViews, totalLikes |-> totalLikes,
                       totalComments |-> totalComments,
                       totalFollowers |-> Cardinality(followersCount),
                       viewsGrowth |-> Growth(SumOf(recentPosts, "viewCount"), totalViews),
                       likesGrowth |-> Growth(SumOf(recentPosts, "likeCount"), totalLikes),
                       commentsGrowth |-> IF totalComments > 0 THEN 15 ELSE 0,
                       followersGrowth |-> IF Cardinality(followersCount) > 0 THEN 12 ELSE 0]
    /\ UNCHANGED <<rest, users, posts, likes, nextId, now, calls, raced, hist>>

\* ------------------------------------------- incrementViewCount, by steps
\* Each store call of the handler is a step of its own (the store gives
\* single-document atomicity only), so two calls may interleave.

\* public.ts 133-137: read the post; return at once unless it is published
ViewSkip(c, p) ==
    /\ ~InFlight(c)
    /\ ~IsPublished(posts, p)
    /\ ret' = [op |-> "incrementViewCount", ok |-> TRUE, success |-> FALSE]
    /\ UNCHANGED <<rest, users, posts, likes, nextId, now, calls, raced, hist>>

\* public.ts 133: read the post; raced records a post with two calls in
\* flight at once
ViewBegin(c, p) ==
    /\ ~InFlight(c)
    /\ IsPublished(posts, p)
    /\ PostOf(posts, p).viewCount < MaxViews
    /\ calls' = [calls EXCEPT ![c] =
                    [pc |-> "count", postId |-> p,
                     viewCount |-> PostOf(posts, p).viewCount,
                     today |-> None, existing |-> None, views |-> 0]]
    /\ raced' = IF \E d \in Slots : d # c /\ InFlight(d) /\ calls[d].postId = p
                THEN raced \cup {p} ELSE raced
    /\ UNCHANGED <<rest, users, posts, likes, nextId, now, hist, ret>>

\* public.ts 140-145: patch viewCount from the post read, then take the date
ViewCount(c) ==
    /\ calls[c].pc = "count"
    /\ posts' = [i \in DOMAIN posts |->
                    IF posts[i].id = calls[c].postId
                    THEN [posts[i] EXCEPT !.viewCount = calls[c].viewCount + 1]
                    ELSE posts[i]]
    /\ calls' = [calls EXCEPT ![c].pc = "lookup", ![c].today = DateOf(now)]
    /\ UNCHANGED <<rest, users, likes, nextId, now, raced, hist, ret>>

\* the mutant of ExistingStats: the call never looks for a row
ExistingStatsUnchecked(rows, p, date) == {}

\* public.ts 148-156: the rows of the post for the date
ExistingStats(rows, p, date) == {r \in rows : r.postId = p /\ r.date = date}

\* public.ts 148-156: look the row up; .unique() throws on more than one
ViewLookup(c) ==
    /\ calls[c].pc = "lookup"
    /\ LET found == ExistingStats(dailyStats, calls[c].postId, calls[c].today)
       IN IF Cardinality(found) > 1
          THEN /\ calls' = [calls EXCEPT ![c] = IdleFrame]
               /\ ret' = ErrorRet("incrementViewCount",
                                  "unique() returned more than one result")
          ELSE /\ calls' = [calls EXCEPT
                              ![c].pc = "upsert",
                              ![c].existing = IF found = {} THEN None
                                              ELSE (CHOOSE r \in found : TRUE).id,
                              ![c].views = IF found = {} THEN 0
                                           ELSE (CHOOSE r \in found : TRUE).views]
               /\ UNCHANGED ret
    /\ UNCHANGED <<rest, users, posts, likes, nextId, now, raced, hist>>

\* public.ts 158-175: patch the row found from the views read, or insert a
\* new row, and return
ViewUpsert(c) ==
    /\ calls[c].pc = "upsert"
    /\ LET f == calls[c]
       IN IF f.existing # None
          THEN /\ dailyStats' = {IF r.id = f.existing THEN [r EXCEPT !.views = f.views + 1]
                                 ELSE r : r \in dailyStats}
               /\ UNCHANGED nextId
          ELSE /\ nextId.stats <= MaxStatInserts
               /\ dailyStats' = dailyStats \cup
                     {[id |-> nextId.stats, postId |-> f.postId, date |-> f.today,
                       views |-> 1]}
               /\ nextId' = [nextId EXCEPT !.stats = @ + 1]
    /\ calls' = [calls EXCEPT ![c] = IdleFrame]
    /\ ret' = [op |-> "incrementViewCount", ok |-> TRUE, success |-> TRUE]
    /\ UNCHANGED <<names, follows, comments, users, posts, likes, now, raced, hist>>

\* -------------------------------------------------------- updateUsername
\* A username argument is a record of its text (a number stands for each
\* different text), its length and whether it matches /^[a-zA-Z0-9_-]+$/. Each store call of the handler is a step of
\* its own, so two calls may interleave.
UsernameError(identity, username) ==
    IF NoIdentity(identity) THEN "Not authenticated"
    ELSE IF ResolveUser(users, identity) = None THEN "User not found"
    ELSE IF ~username.matches
    THEN "Username can only contain letters, numbers, underscores, and hyphens"
    ELSE IF username.length < MinUsernameLength \/ username.length > MaxUsernameLength
    THEN "Username must be between 3 and 20 characters"
    ELSE "none"

\* users.ts 73-101: the exits before the username is looked up
UsernameRefuse(c, identity, username) ==
    /\ ~InFlight(c)
    /\ UsernameError(identity, username) # "none"
    /\ ret' = ErrorRet("updateUsername", UsernameError(identity, username))
              @@ [identity |-> identity]
    /\ UNCHANGED <<rest, users, posts, likes, nextId, now, calls, raced, hist>>

\* users.ts 73-101: the user document is read and the argument accepted;
\* raced records a username with two calls in flight at once
UsernameBegin(c, identity, username) ==
    /\ ~InFlight(c)
    /\ UsernameError(identity, username) = "none"
    /\ LET user == ResolveUser(users, identity)
       IN calls' = [calls EXCEPT ![c] =
                       [pc |-> "lookup", postId |-> None, userId |-> user,
                        username |-> username.text,
                        current |-> UsernameOf(names, user)]]
    /\ raced' = IF \E d \in Slots : d # c /\ InFlight(d)
                                      /\ calls[d].username = username.text
                THEN raced \cup {username.text} ELSE raced
    /\ UNCHANGED <<rest, users, posts, likes, nextId, now, hist, ret>>

\* the mutant of ExistingUsers: the call never looks the username up
ExistingUsersUnchecked(ns, text) == {}

\* users.ts 105-108: the users holding the username
ExistingUsers(ns, text) == {n[1] : n \in {m \in ns : m[2] = text}}

\* users.ts 104-113: unless the username is the caller's own, look it up;
\* .unique() throws on more than one match
UsernameLookup(c) ==
    /\ calls[c].pc = "lookup"
    /\ LET f == calls[c]
           found == ExistingUsers(names, f.username)
       IN IF f.username = f.current
          THEN calls' = [calls EXCEPT ![c].pc = "patch"] /\ UNCHANGED ret
          ELSE IF Cardinality(found) > 1
          THEN /\ calls' = [calls EXCEPT ![c] = IdleFrame]
               /\ ret' = ErrorRet("updateUsername", "unique() returned more than one result")
                         @@ [identity |-> f.userId]
          ELSE IF found # {}
          THEN /\ calls' = [calls EXCEPT ![c] = IdleFrame]
               /\ ret' = ErrorRet("updateUsername", "Username is already taken")
                         @@ [identity |-> f.userId]
          ELSE calls' = [calls EXCEPT ![c].pc = "patch"] /\ UNCHANGED ret
    /\ UNCHANGED <<rest, users, posts, likes, nextId, now, raced, hist>>

\* users.ts 116-121: patch the username of the caller's document and return
UsernamePatch(c) ==
    /\ calls[c].pc = "patch"
    /\ LET f == calls[c]
       IN /\ names' = {n \in names : n[1] # f.userId} \cup {<<f.userId, f.username>>}
          /\ ret' = [op |-> "updateUsername", ok |-> TRUE, id |-> f.userId,
                     identity |-> f.userId]
    /\ calls' = [calls EXCEPT ![c] = IdleFrame]
    /\ UNCHANGED <<follows, comments, dailyStats, users, posts, likes, nextId, now,
                   raced, hist>>

\* ------------------------------------------------- store, getCurrentUser
\* store (users.ts 4-44). The id of a user document is the token identity it
\* was inserted for; the name, email and image fields are not modelled, so
\* the patch of a changed name leaves the modelled store as it is
Store(identity) ==
    IF NoIdentity(identity)
    THEN /\ ret' = ErrorRet("store", "Called storeUser without authentication present")
                   @@ [identity |-> identity]
         /\ UNCHANGED <<rest, users, posts, likes, nextId, now, calls, raced, hist>>
    ELSE IF ResolveUser(users, identity) # None
    THEN /\ ret' = [op |-> "store", ok |-> TRUE, identity |-> identity,
                    id |-> ResolveUser(users, identity)]
         /\ UNCHANGED <<rest, users, posts, likes, nextId, now, calls, raced, hist>>
    ELSE /\ users' = users \cup {identity}
         /\ ret' = [op |-> "store", ok |-> TRUE, identity |-> identity, id |-> identity]
         /\ UNCHANGED <<rest, posts, likes, nextId, now, calls, raced, hist>>

\* getCurrentUser (users.ts 47-66)
GetCurrentUser(identity) ==
    /\ IF NoIdentity(identity)
       THEN ret' = ErrorRet("getCurrentUser", "Not authenticated") @@ [identity |-> identity]
       ELSE IF ResolveUser(users, identity) = None
       THEN ret' = ErrorRet("getCurrentUser", "User not found") @@ [identity |-> identity]
       ELSE ret' = [op |-> "getCurrentUser", ok |-> TRUE, identity |-> identity,
                    user |-> ResolveUser(users, identity)]
    /\ UNCHANGED <<rest, users, posts, likes, nextId, now, calls, raced, hist>>

\* ------------------------------------------------------ getRecentActivity
\* the documents of a set, newest first: by the given key, descending
RECURSIVE Descending(_, _)
Descending(docs, key) ==
    IF docs = {} THEN <<>>
    ELSE LET newest == CHOOSE d \in docs : \A e \in docs : e[key] <= d[key]
         IN <<newest>> \o Descending(docs \ {newest}, key)

RECURSIVE Flatten(_)
Flatten(sqs) == IF sqs = <<>> THEN <<>> ELSE sqs[1] \o Flatten(Tail(sqs))

\* users.ts 294-321: the latest likes of a post, those of a known user
LikeActivities(post) ==
    LET found == Take(Descending({l \in likes : l.postId = post.id}, "id"), ActivityTake)
        known == SelectSeq(found, LAMBDA l : l.userId # None /\ l.userId \in users)
    IN [i \in DOMAIN known |->
           [type |-> "like", user |-> known[i].userId, post |-> post.id,
            time |-> known[i].createdAt]]

\* users.ts 324-350: the latest approved comments of a post
CommentActivities(post) ==
    LET found == Take(Reverse(SelectSeq(comments,
                          LAMBDA c : c.postId = post.id /\ c.status = "approved")),
                      ActivityTake)
    IN [i \in DOMAIN found |->
           [type |-> "comment", user |-> found[i].authorId, post |-> post.id,
            time |-> found[i].createdAt]]

\* .order("desc") on follows: newest first (the follow documents of one
\* day are taken in the order of their followers)
RECURSIVE FollowsDescending(_)
FollowsDescending(fs) ==
    IF fs = {} THEN <<>>
    ELSE LET newest == CHOOSE f \in fs :
                           \A g \in fs : g[3] < f[3] \/ (g[3] = f[3] /\ g[1] <= f[1])
         IN <<newest>> \o FollowsDescending(fs \ {newest})

\* users.ts 353-370: the latest followers, those with a user document
FollowActivities(user) ==
    LET found == Take(FollowsDescending({f \in follows : f[2] = user}), ActivityTake)
        known == SelectSeq(found, LAMBDA f : f[1] \in users)
    IN [i \in DOMAIN known |->
           [type |-> "follow", user |-> known[i][1], post |-> None,
            time |-> known[i][3]]]

\* users.ts 373: sort by time, newest first (stable)
ActivityInsert(sorted, x) ==
    LET k == Cardinality({i \in DOMAIN sorted : sorted[i].time >= x.time})
    IN SubSeq(sorted, 1, k) \o <<x>> \o SubSeq(sorted, k + 1, Len(sorted))

RECURSIVE ActivitySort(_)
ActivitySort(sq) ==
    IF sq = <<>> THEN <<>>
    ELSE ActivityInsert(ActivitySort(SubSeq(sq, 1, Len(sq) - 1)), sq[Len(sq)])

\* getRecentActivity (users.ts 266-377); a user's name and a post's title
\* are rendered by their ids
GetRecentActivity(identity, argLimit) ==
    /\ IF NoIdentity(identity) \/ ResolveUser(users, identity) = None
       THEN ret' = [op |-> "getRecentActivity", ok |-> TRUE, identity |-> identity,
                    limit |-> argLimit, items |-> <<>>]
       ELSE LET user == ResolveUser(users, identity)
                userPosts == SelectSeq(posts, LAMBDA d : d.authorId = user)
                activities ==
                    Flatten([i \in DOMAIN userPosts |-> LikeActivities(userPosts[i])])
                    \o Flatten([i \in DOMAIN userPosts |-> CommentActivities(userPosts[i])])
                    \o FollowActivities(user)
            IN ret' = [op |-> "getRecentActivity", ok |-> TRUE, identity |-> identity,
                       limit |-> argLimit,
                       items |-> Take(ActivitySort(activities), LimitOf(argLimit))]
    /\ UNCHANGED <<rest, users, posts, likes, nextId, now, calls, raced, hist>>

\* getPostsWithAnalytics (users.ts 380-430): the caller's latest posts, each
\* with the number of its approved comments
GetPostsWithAnalytics(identity, argLimit) ==
    /\ IF NoIdentity(identity) \/ ResolveUser(users, identity) = None
       THEN ret' = [op |-> "getPostsWithAnalytics", ok |-> TRUE, identity |-> identity,
                    limit |-> argLimit, items |-> <<>>]
       ELSE LET user == ResolveUser(users, identity)
                found == Take(Reverse(SelectSeq(posts, LAMBDA d : d.authorId = user)),
                              IF argLimit = None THEN DefaultPostsLimit ELSE argLimit)
            IN ret' = [op |-> "getPostsWithAnalytics", ok |-> TRUE,
                       identity |-> identity, limit |-> argLimit,
                       items |-> [i \in DOMAIN found |->
                                     [post |-> found[i],
                                      commentCount |->
                                          Len(SelectSeq(comments,
                                                  LAMBDA c : c.postId = found[i].id
                                                             /\ c.status = "approved"))]]]
    /\ UNCHANGED <<rest, users, posts, likes, nextId, now, calls, raced, hist>>

\* the mutant of Found: no like is reported
FoundNever(like) == FALSE

\* likes.ts 135: !!like
Found(like) == like # {}

\* hasUserLiked (likes.ts 96-137): the user given, else the caller's;
\* .unique() throws on more than one match
HasUserLiked(identity, argUser, postId) ==
    LET call == [identity |-> identity, userId |-> argUser, postId |-> postId]
    IN
    /\ IF argUser = None /\ (NoIdentity(identity) \/ ResolveUser(users, identity) = None)
       THEN ret' = [op |-> "hasUserLiked", ok |-> TRUE, identity |-> identity,
                    call |-> call, liked |-> FALSE]
       ELSE LET userId == IF argUser = None THEN ResolveUser(users, identity) ELSE argUser
                like == LikesOf(likes, postId, userId)
            IN IF Cardinality(like) > 1
               THEN ret' = ErrorRet("hasUserLiked", "unique() returned more than one result")
                           @@ [identity |-> identity, call |-> call]
               ELSE ret' = [op |-> "hasUserLiked", ok |-> TRUE, identity |-> identity,
                            call |-> call, liked |-> Found(like)]
    /\ UNCHANGED <<rest, users, posts, likes, nextId, now, calls, raced, hist>>

\* ---------------------------------------------------------- SpecTrending
\* the store after users 1 and 2 created posts 1..n (at most one of them
\* by user 2), each a draft, or published 8 or 7 days ago and viewed
\* and liked since
Today == 20
TrendUsers == {1, 2}
TrendCounts == 0..MaxTrendCount
TrendDocs(id, author) ==
    {NewPost(id, author, "draft", Today - WeekDays - 1)}
    \cup {[NewPost(id, author, "published", t) EXCEPT !.viewCount = v, !.likeCount = l]
        : t \in {Today - WeekDays - 1, Today - WeekDays}, v \in TrendCounts, l \in TrendCounts}

InitTrending ==
    /\ names = {} /\ follows = {} /\ comments = <<>> /\ dailyStats = {}
    /\ users = TrendUsers
    /\ now = Today
    /\ \E n \in 0..MaxTrendPosts : \E g \in 0..n :
          /\ posts \in [1..n -> UNION {TrendDocs(i, a) : i \in 1..n, a \in TrendUsers}]
          /\ \A i \in 1..n : posts[i].id = i /\ posts[i].authorId = (IF i = g THEN 2 ELSE 1)
          /\ nextId = [posts |-> n + 1, likes |-> 1, comments |-> 1, stats |-> 1]
    /\ likes = {}
    /\ calls = [c \in Slots |-> IdleFrame]
    /\ raced = {}
    /\ hist = <<>>
    /\ ret = [op |-> "none", ok |-> TRUE]

NextTrending ==
    \/ \E l \in 0..MaxTrendPosts : GetTrendingPosts(l)
    \/ \E u \in TrendUsers : RemoveUser(u)

SpecTrending == InitTrending /\ [][NextTrending]_vars

\* post i is published inside the 7-day window
InWindow(i) ==
    /\ posts[i].status = "published"
    /\ posts[i].publishedAt # None
    /\ posts[i].publishedAt >= now - WeekDays

\* post a has at least the views and the likes of post b, and more of one
Dominates(a, b) ==
    /\ posts[a].viewCount >= posts[b].viewCount
    /\ posts[a].likeCount >= posts[b].likeCount
    /\ \/ posts[a].viewCount > posts[b].viewCount
       \/ posts[a].likeCount > posts[b].likeCount

\* the places of post id in the result returned
PlacesOf(id) == {k \in DOMAIN ret.posts : ret.posts[k].id = id}

\* post a is returned, and before every place of post b
Precedes(a, b) ==
    \E j \in PlacesOf(posts[a].id) : \A k \in PlacesOf(posts[b].id) : j < k

\* C7 (as stated): if A dominates B inside the window, A's trendingScore is
\* strictly greater and B is never returned without A before it.
C7_DominatingPostFirst ==
    ret.op = "getTrendingPosts" =>
        \A a, b \in DOMAIN posts :
            (InWindow(a) /\ InWindow(b) /\ Dominates(a, b)) =>
                /\ posts[a].viewCount + 3 * posts[a].likeCount
                      > posts[b].viewCount + 3 * posts[b].likeCount
                /\ PlacesOf(posts[b].id) # {} => Precedes(a, b)

\* C7 (amended): if A dominates B inside the window, A's trendingScore is
\* strictly greater, and if A's author document exists, B is never
\* returned without A before it.
C7_DominatingPostFirstIfAuthor ==
    ret.op = "getTrendingPosts" =>
        \A a, b \in DOMAIN posts :
            (InWindow(a) /\ InWindow(b) /\ Dominates(a, b)) =>
                /\ posts[a].viewCount + 3 * posts[a].likeCount
                      > posts[b].viewCount + 3 * posts[b].likeCount
                /\ (posts[a].authorId \in users /\ PlacesOf(posts[b].id) # {})
                      => /\ Precedes(a, b)
                         /\ \A j \in PlacesOf(posts[a].id), k \in PlacesOf(posts[b].id) :
                               ret.posts[j].trendingScore > ret.posts[k].trendingScore

\* the post created later dominates the earlier one inside the window, and
\* both were returned, the later one first
C7_Witness ==
    /\ ret.op = "getTrendingPosts"
    /\ \E a, b \in DOMAIN posts :
          /\ a > b
          /\ InWindow(a) /\ InWindow(b) /\ Dominates(a, b)
          /\ PlacesOf(posts[b].id) # {}
          /\ Precedes(a, b)

\* C23: every post returned by getTrendingPosts is published, was published
\* no more than 7 days ago and has an author document; the result is in
\* non-increasing trendingScore order and has at most limit entries.
C23_TrendingPostsAreRecent ==
    ret.op = "getTrendingPosts" =>
        /\ Len(ret.posts) <= LimitOf(ret.limit)
        /\ \A k \in DOMAIN ret.posts :
              /\ PostExists(posts, ret.posts[k].id)
              /\ PostOf(posts, ret.posts[k].id).status = "published"
              /\ PostOf(posts, ret.posts[k].id).publishedAt >= now - WeekDays
              /\ PostOf(posts, ret.posts[k].id).authorId \in users
              /\ ret.posts[k].trendingScore = TrendingScore(PostOf(posts, ret.posts[k].id))
        /\ \A j, k \in DOMAIN ret.posts :
              j < k => ret.posts[j].trendingScore >= ret.posts[k].trendingScore

\* of two published posts with authors, only the one published 7 days ago
\* was returned; the other was published 8 days ago
C23_Witness ==
    /\ ret.op = "getTrendingPosts"
    /\ Len(ret.posts) = 1
    /\ Len(posts) = 2
    /\ \A i \in DOMAIN posts : posts[i].status = "published" /\ posts[i].authorId \in users
    /\ \E i \in DOMAIN posts : posts[i].publishedAt = now - WeekDays - 1
    /\ PostOf(posts, ret.posts[1].id).publishedAt = now - WeekDays

\* --------------------------------------------------------- SpecSuggested
\* users 1, 2 and 3 have a record and a username; on the first day users 2
\* and 3 created posts 1..n published (the last one by user 2, the others by
\* user 3), which were viewed since; 7 and 10 days later the posts are
\* updated and the suggestions asked for
SugUsers == {1, 2, 3}
SugAuthors == {2, 3}
SugCallers == {None, 1}
SugDays == {FirstDay + WeekDays, FirstDay + WeekDays + 3}
SugPostIds == 1..MaxSugPosts

InitSuggested ==
    /\ names = {<<u, u>> : u \in SugUsers} /\ follows = {} /\ comments = <<>> /\ dailyStats = {}
    /\ users = SugUsers
    /\ now = FirstDay
    /\ \E n \in 0..MaxSugPosts :
          /\ posts \in [1..n -> UNION {{[NewPost(i, a, "published", FirstDay)
                                            EXCEPT !.viewCount = v]
                                          : v \in 0..MaxSugViews}
                                       : i \in 1..n, a \in SugAuthors}]
          /\ \A i \in 1..n : posts[i].id = i /\ posts[i].authorId = (IF i = n THEN 2 ELSE 3)
          /\ nextId = [posts |-> n + 1, likes |-> 1, comments |-> 1, stats |-> 1]
    /\ likes = {}
    /\ calls = [c \in Slots |-> IdleFrame]
    /\ raced = {}
    /\ hist = <<>>
    /\ ret = [op |-> "none", ok |-> TRUE]

NextSuggested ==
    \/ \E i \in SugAuthors, id \in SugPostIds, st \in {"draft", "published"} :
           Update(i, id, st)
    \/ \E day \in SugDays : SleepTo(day)
    \/ \E i \in SugCallers, l \in {None, 1} : GetSuggestedUsers(i, l)

SpecSuggested == InitSuggested /\ [][NextSuggested]_vars

\* the published posts of user u
PublishedBy(u) == {i \in DOMAIN posts : posts[i].authorId = u /\ posts[i].status = "published"}

\* the places of user u in the suggestions returned
SuggestedAt(u) == {k \in DOMAIN ret.users : ret.users[k].id = u}

\* C8 (as stated): in the suggestions just returned, a candidate with a
\* post published 3 days ago ranks above a candidate whose published posts
\* are all 10 days old: the latter is never returned without the former
\* before it.
C8_RecentPublisherFirst ==
    (ret.op = "getSuggestedUsers" /\ ret.at = now) =>
        LET candidates == {u \in users : \E k \in DOMAIN Candidates(ret.identity) :
                                            Candidates(ret.identity)[k] = u}
        IN \A x, y \in candidates :
              (/\ \E i \in PublishedBy(x) : posts[i].publishedAt = now - 3
               /\ PublishedBy(y) # {}
               /\ \A i \in PublishedBy(y) : posts[i].publishedAt = now - 10)
              => (SuggestedAt(y) # {} =>
                     \E j \in SuggestedAt(x) : \A k \in SuggestedAt(y) : j < k)

\* ---------------------------------------------------------- SpecComments
\* users 1 and 2 have a record, identity 3 has none; user 1 created posts 1
\* and 2 published and post 3 as a draft, post 4 does not exist
CommentUsers == {1, 2}
CommentPostIds == {1, 2, 3, 4}
CommentIds == 1..MaxCommentInserts
Contents == {[length |-> 0, trimmed |-> 0], [length |-> 2, trimmed |-> 0],
             [length |-> MaxContentLength, trimmed |-> MaxContentLength],
             [length |-> MaxContentLength + 1, trimmed |-> MaxContentLength],
             [length |-> MaxContentLength + 1, trimmed |-> MaxContentLength + 1]}

InitComments ==
    /\ names = {} /\ follows = {} /\ comments = <<>> /\ dailyStats = {}
    /\ users = CommentUsers
    /\ now = FirstDay
    /\ posts = <<NewPost(1, 1, "published", FirstDay), NewPost(2, 1, "published", FirstDay),
                 NewPost(3, 1, "draft", FirstDay)>>
    /\ likes = {}
    /\ nextId = [posts |-> 4, likes |-> 1, comments |-> 1, stats |-> 1]
    /\ calls = [c \in Slots |-> IdleFrame]
    /\ raced = {}
    /\ hist = <<>>
    /\ ret = [op |-> "none", ok |-> TRUE]

NextComments ==
    \/ \E i \in CommentUsers, p \in CommentPostIds :
           AddComment(i, p, [length |-> 3, trimmed |-> 1])
    \/ \E i \in CommentUsers, c \in Contents : AddComment(i, 1, c)
    \/ \E i \in NoUserIdentities : AddComment(i, 1, [length |-> 3, trimmed |-> 1])
    \/ \E i \in CommentUsers, id \in CommentIds : DeleteComment(i, id)
    \/ \E i \in NoUserIdentities : DeleteComment(i, 1)
    \/ \E u \in CommentUsers : RemoveUser(u)
    \/ \E p \in CommentPostIds : GetPostComments(p)

SpecComments == InitComments /\ [][NextComments]_vars

\* C9: every comment getPostComments returns is a stored comment of the
\* requested post with status approved whose author's user document exists.
C9_CommentsHaveAuthor ==
    ret.op = "getPostComments" =>
        \A k \in DOMAIN ret.comments :
            LET c == ret.comments[k]
            IN /\ c.authorId \in users
               /\ c.author # None
               /\ c.postId = ret.postId
               /\ c.status = "approved"
               /\ CommentExists(comments, c.id)
               /\ CommentOf(comments, c.id).postId = c.postId
               /\ CommentOf(comments, c.id).authorId = c.authorId

\* a comment of the requested post whose author's user document is gone is
\* still stored and was not returned, while another comment of that post
\* was, and a comment of another post is stored
C9_Witness ==
    /\ ret.op = "getPostComments"
    /\ Len(ret.comments) > 0
    /\ \E i \in DOMAIN comments :
          /\ comments[i].postId = ret.postId
          /\ comments[i].authorId \notin users
          /\ \A k \in DOMAIN ret.comments : ret.comments[k].id # comments[i].id
    /\ \E i \in DOMAIN comments : comments[i].postId # ret.postId

\* C12: a deleteComment call that succeeds removes exactly the comment it
\* names and was made by that comment's author or by the author of its
\* post; a deleteComment call that fails leaves the comments as they were;
\* and no comment leaves the store in any other way.
C12_DeleteOnlyByAuthorOrOwner ==
    [][/\ ret'.op = "deleteComment" =>
             IF ret'.ok
             THEN /\ ret'.userId \in {ret'.commentAuthor, ret'.postAuthor}
                  /\ CommentExists(comments, ret'.commentId)
                  /\ CommentOf(comments, ret'.commentId).authorId = ret'.commentAuthor
                  /\ PostOf(posts, CommentOf(comments, ret'.commentId).postId).authorId
                        = ret'.postAuthor
                  /\ comments' = SelectSeq(comments, LAMBDA c : c.id # ret'.commentId)
             ELSE comments' = comments
       /\ (\E i \in DOMAIN comments : ~CommentExists(comments', comments[i].id))
             => ret'.op = "deleteComment" /\ ret'.ok]_vars

\* the owner of a post deleted a comment another user wrote on it, and
\* other comments are still stored
C12_Witness ==
    /\ ret.op = "deleteComment" /\ ret.ok
    /\ ret.userId # ret.commentAuthor
    /\ ret.userId = ret.postAuthor
    /\ comments # <<>>

\* C13: an addComment call fails and inserts nothing when the caller is
\* unauthenticated or has no user record, when the post is missing or not
\* published, or when the content is empty, whitespace-only or longer than
\* 1000 characters; every other call appends exactly one comment, of the
\* caller, on that post.
C13_AddCommentValidates ==
    [][ret'.op = "addComment" =>
          LET a == ret'.call
              refused == \/ a.identity = None
                         \/ a.identity \notin users
                         \/ ~PostExists(posts, a.postId)
                         \/ ~IsPublished(posts, a.postId)
                         \/ a.content.length = 0
                         \/ a.content.trimmed = 0
                         \/ a.content.length > 1000
          IN IF refused
             THEN ~ret'.ok /\ comments' = comments
             ELSE /\ ret'.ok
                  /\ Len(comments') = Len(comments) + 1
                  /\ SubSeq(comments', 1, Len(comments)) = comments
                  /\ comments'[Len(comments')].postId = a.postId
                  /\ comments'[Len(comments')].authorId = a.identity
                  /\ comments'[Len(comments')].id = ret'.id
                  /\ ~CommentExists(comments, ret'.id)]_vars

\* a comment of exactly 1000 characters was inserted after earlier ones
C13_Witness ==
    /\ ret.op = "addComment" /\ ret.ok
    /\ ret.call.content.length = 1000
    /\ Len(comments) > 1
    /\ comments[Len(comments)].id = ret.id

\* ------------------------------------------------------------- SpecDaily
\* users 1 and 2 have a record, identity 3 has none; user 1 created post 1
\* published and post 3 as a draft, user 2 post 2 published; post 4 does not
\* exist. The first day is 2024-01-28; days pass one by one, and then many
\* at once: to the first day whose window leaves the first day out
\* (2024-02-27), and to a month after the last of the single days
\* (2024-02-29).
DailyUsers == {1, 2}
DailyIdentities == {None, 1, 2, 3}
DailyPostIds == {1, 2, 3, 4}
StartDay == 27
MonthDays == 31
LaterDays == {StartDay + LastOffset + 1, StartDay + MaxDailyTicks + MonthDays}

InitDaily ==
    /\ names = {} /\ follows = {} /\ comments = <<>> /\ dailyStats = {}
    /\ users = DailyUsers
    /\ now = StartDay
    /\ posts = <<NewPost(1, 1, "published", now), NewPost(2, 2, "published", now),
                 NewPost(3, 1, "draft", now)>>
    /\ likes = {}
    /\ nextId = [posts |-> 4, likes |-> 1, comments |-> 1, stats |-> 1]
    /\ calls = [c \in Slots |-> IdleFrame]
    /\ raced = {}
    /\ hist = <<>>
    /\ ret = [op |-> "none", ok |-> TRUE]

NextDaily ==
    \/ \E p \in DailyPostIds : IncrementViewCount(p)
    \/ \E i \in DailyIdentities : GetDailyViews(i)
    \/ Tick(StartDay + MaxDailyTicks)
    \/ \E day \in LaterDays : SleepTo(day)

SpecDaily == InitDaily /\ [][NextDaily]_vars

\* d is a date of the calendar
IsDate(d) == d[2] \in 1..12 /\ d[3] \in 1..DaysInMonth(d[1], d[2])

\* date e is the calendar day after date d
NextDay(d, e) ==
    \/ e[1] = d[1] /\ e[2] = d[2] /\ e[3] = d[3] + 1 /\ e[3] <= DaysInMonth(d[1], d[2])
    \/ /\ d[3] = DaysInMonth(d[1], d[2]) /\ e[3] = 1
       /\ \/ d[2] < 12 /\ e[1] = d[1] /\ e[2] = d[2] + 1
          \/ d[2] = 12 /\ e[1] = d[1] + 1 /\ e[2] = 1

\* date d is before date e, as the strings compare
DateBefore(d, e) ==
    \/ d[1] < e[1]
    \/ d[1] = e[1] /\ d[2] < e[2]
    \/ d[1] = e[1] /\ d[2] = e[2] /\ d[3] < e[3]

\* the DailyStats rows of the posts of user u
RowsOf(u) ==
    {r \in dailyStats : \E i \in DOMAIN posts : posts[i].id = r.postId /\ posts[i].authorId = u}

\* C10: what getDailyViews just returned to a user has exactly 30 entries,
\* the last one dated today, each dated the day after the one before it (so
\* from 29 days ago to today, ascending), whatever DailyStats rows exist;
\* an entry's views are those of the user's rows of that date, and 0 when
\* there is no such row.
C10_ThirtyDaysAscending ==
    (ret.op = "getDailyViews" /\ ret.ok /\ ret.at = now) =>
        /\ Len(ret.days) = 30
        /\ ret.days[30].date = DateOf(now)
        /\ \A k \in 1..29 :
              /\ NextDay(ret.days[k].date, ret.days[k + 1].date)
              /\ DateBefore(ret.days[k].date, ret.days[k + 1].date)
        /\ \A k \in 1..30 : IsDate(ret.days[k].date)
        /\ \A k \in 1..30 :
              LET matching == {r \in RowsOf(ret.userId) : r.date = ret.days[k].date}
              IN /\ matching = {} => ret.days[k].views = 0
                 /\ \A r \in matching : ret.days[k].views >= r.views

\* getDailyViews returned 30 entries to a user who has a row inside the
\* window, a row dated before the window and days without a row, one of
\* them a day for which another user's post has a row
C10_Witness ==
    /\ ret.op = "getDailyViews" /\ ret.ok /\ ret.at = now
    /\ Len(ret.days) = 30
    /\ \E k \in 1..30 : ret.days[k].views > 0
    /\ \E k \in 1..30 : ret.days[k].views = 0
    /\ \E r \in RowsOf(ret.userId) : DateBefore(r.date, ret.days[1].date)
    /\ \E r \in dailyStats \ RowsOf(ret.userId) :
          \E k \in 1..30 : ret.days[k].date = r.date /\ ret.days[k].views = 0

\* --------------------------------------------------------- SpecAnalytics
\* users 1, 2 and 3 have a record, identity 4 has none; on the first day
\* user 1 created post 1 published, which was liked or not; users 1 and 2
\* create further posts, posts are viewed, and a month passes
AnalyticsUsers == {1, 2, 3}
AnalyticsAuthors == {1, 2}
AnalyticsIdentities == {None, 1, 2, 3, 4}

InitAnalytics ==
    /\ names = {} /\ follows = {} /\ comments = <<>> /\ dailyStats = {}
    /\ users = AnalyticsUsers
    /\ now = FirstDay
    /\ \E l \in 0..MaxAnalyticsLikes :
          posts = <<[NewPost(1, 1, "published", FirstDay) EXCEPT !.likeCount = l]>>
    /\ likes = {}
    /\ nextId = [posts |-> 2, likes |-> 1, comments |-> 1, stats |-> 1]
    /\ calls = [c \in Slots |-> IdleFrame]
    /\ raced = {}
    /\ hist = <<>>
    /\ ret = [op |-> "none", ok |-> TRUE]

NextAnalytics ==
    \/ \E i \in AnalyticsAuthors : Create(i, "published", FirstFields)
    \/ \E p \in 1..(MaxPostInserts + 1) : IncrementViewCount(p)
    \/ SleepTo(FirstDay + ThirtyDays)
    \/ \E i \in AnalyticsIdentities : GetAnalytics(i)

SpecAnalytics == InitAnalytics /\ [][NextAnalytics]_vars

\* the posts of user u
PostsBy(u) == {i \in DOMAIN posts : posts[i].authorId = u}

\* C11: getAnalytics answers a caller who has a user record with a result,
\* not null and not an error; in it viewsGrowth is 0 when the user's posts
\* have no views (also when the user has no posts), likesGrowth is 0 when
\* they have no likes, and neither is ever NaN.
C11_ZeroGrowthWithoutViews ==
    ret.op = "getAnalytics" =>
        /\ ret.ok
        /\ ret.identity \in users => ~ret.isNull
        /\ ~ret.isNull =>
              /\ ret.viewsGrowth # NaN /\ ret.likesGrowth # NaN
              /\ (\A i \in PostsBy(ret.userId) : posts[i].viewCount = 0)
                    => ret.totalViews = 0 /\ ret.viewsGrowth = 0
              /\ (\A i \in PostsBy(ret.userId) : posts[i].likeCount = 0)
                    => ret.totalLikes = 0 /\ ret.likesGrowth = 0

\* getAnalytics answered a user whose posts have likes but no views with
\* viewsGrowth = 0 and a likesGrowth above 0
C11_Witness ==
    /\ ret.op = "getAnalytics" /\ ~ret.isNull
    /\ PostsBy(ret.userId) # {}
    /\ ret.totalViews = 0 /\ ret.viewsGrowth = 0
    /\ ret.totalLikes > 0 /\ ret.likesGrowth > 0

\* ------------------------------------------------------------- SpecViews
\* user 1 created posts 1 and 2 published and post 3 as a draft, post 4 does
\* not exist; the posts are viewed by calls that may interleave, over two
\* days
ViewPostIds == {1, 2, 3, 4}

InitViews ==
    /\ names = {} /\ follows = {} /\ comments = <<>> /\ dailyStats = {}
    /\ users = {1}
    /\ now = FirstDay
    /\ posts = <<NewPost(1, 1, "published", FirstDay), NewPost(2, 1, "published", FirstDay),
                 NewPost(3, 1, "draft", FirstDay)>>
    /\ likes = {}
    /\ nextId = [posts |-> 4, likes |-> 1, comments |-> 1, stats |-> 1]
    /\ calls = [c \in Slots |-> IdleFrame]
    /\ raced = {}
    /\ hist = <<>>
    /\ ret = [op |-> "none", ok |-> TRUE]

NextViews ==
    \/ \E c \in Slots, p \in ViewPostIds : ViewSkip(c, p)
    \/ \E c \in Slots, p \in ViewPostIds : ViewBegin(c, p)
    \/ \E c \in Slots : ViewCount(c)
    \/ \E c \in Slots : ViewLookup(c)
    \/ \E c \in Slots : ViewUpsert(c)
    \/ Tick(FirstDay + MaxTicks)

SpecViews == InitViews /\ [][NextViews]_vars

\* C17 (as stated): at most one DailyStats row per (post, date) pair.
C17_OneRowPerPostAndDate ==
    \A r, q \in dailyStats : (r.postId = q.postId /\ r.date = q.date) => r = q

\* C17 (amended): at most one DailyStats row per (post, date) pair of every
\* post for which no two incrementViewCount calls were ever in flight at
\* once.
C17_OneRowPerUnracedPost ==
    \A r, q \in dailyStats :
        (r.postId = q.postId /\ r.date = q.date /\ r.postId \notin raced) => r = q

\* a post was viewed twice on one day by calls that did not overlap and
\* has one row of 2 views, while calls for another post overlapped
C17_Witness ==
    /\ \E r \in dailyStats : r.postId \notin raced /\ r.views = 2
    /\ raced # {}

\* --------------------------------------------------------- SpecUsernames
\* users 1 and 2 have a record and no username yet, identity 3 has none;
\* they ask for usernames, well-formed or not, by calls that may interleave
UsernameUsers == {1, 2}
GoodUsernames ==
    {[text |-> t, length |-> MinUsernameLength, matches |-> TRUE]
        : t \in 1..MaxUsernames}
BadUsernames ==
    {[text |-> MaxUsernames + 1, length |-> MinUsernameLength - 1, matches |-> TRUE],
     [text |-> MaxUsernames + 2, length |-> MaxUsernameLength + 1, matches |-> TRUE],
     [text |-> MaxUsernames + 3, length |-> MinUsernameLength, matches |-> FALSE]}

InitUsernames ==
    /\ names = {} /\ follows = {} /\ comments = <<>> /\ dailyStats = {}
    /\ users = UsernameUsers
    /\ now = FirstDay
    /\ posts = <<>>
    /\ likes = {}
    /\ nextId = [posts |-> 1, likes |-> 1, comments |-> 1, stats |-> 1]
    /\ calls = [c \in Slots |-> IdleFrame]
    /\ raced = {}
    /\ hist = <<>>
    /\ ret = [op |-> "none", ok |-> TRUE]

NextUsernames ==
    \/ \E c \in Slots, i \in UsernameUsers, n \in BadUsernames : UsernameRefuse(c, i, n)
    \/ \E c \in Slots, i \in NoUserIdentities, n \in GoodUsernames : UsernameRefuse(c, i, n)
    \/ \E c \in Slots, i \in UsernameUsers, n \in GoodUsernames : UsernameBegin(c, i, n)
    \/ \E c \in Slots : UsernameLookup(c)
    \/ \E c \in Slots : UsernamePatch(c)

SpecUsernames == InitUsernames /\ [][NextUsernames]_vars

\* C18 (as stated): no two user documents hold the same username.
C18_UsernamesUnique ==
    \A n, m \in names : n[2] = m[2] => n[1] = m[1]

\* C18 (amended): no two user documents hold the same username, unless two
\* updateUsername calls for that username were in flight at once.
C18_UnracedUsernamesUnique ==
    \A n, m \in names : (n[2] = m[2] /\ n[2] \notin raced) => n[1] = m[1]

\* both users hold a username, different ones, and the last call was
\* refused because the username it asked for is taken
C18_Witness ==
    /\ \E n, m \in names : n[1] # m[1] /\ n[2] # m[2]
    /\ ret.op = "updateUsername" /\ ~ret.ok
    /\ ret.error = "Username is already taken"
    /\ raced = {}

\* --------------------------------------------------------- SpecAnonymous
\* callers with and without an identity on a store in use: users 1 and 2
\* were stored, user 1 took a username and published post 1, user 2 follows
\* user 1, viewed, liked and commented post 1, and keeps a draft
AnonUsers == {1, 2}
AnonIdentities == {None, 1, 2, 3}
AnonPostIds == {1, 2}
AnonLimits == {None, 1}
AnonCommentIds == {1, 2}
AnonContent == [length |-> 3, trimmed |-> 3]

InitAnonymous ==
    /\ users = AnonUsers
    /\ names = {<<1, 1>>}
    /\ follows = {<<2, 1, FirstDay>>}
    /\ now = FirstDay
    /\ posts = <<[NewPost(1, 1, "published", FirstDay) EXCEPT !.viewCount = 1,
                                                               !.likeCount = 1],
                 NewPost(2, 2, "draft", FirstDay)>>
    /\ likes = {[id |-> 1, postId |-> 1, userId |-> 2, createdAt |-> FirstDay]}
    /\ comments = <<[id |-> 1, postId |-> 1, authorId |-> 2, content |-> 3,
                     status |-> "approved", createdAt |-> FirstDay]>>
    /\ dailyStats = {[id |-> 1, postId |-> 1, date |-> DateOf(FirstDay), views |-> 1]}
    /\ nextId = [posts |-> 3, likes |-> 2, comments |-> 2, stats |-> 2]
    /\ calls = [c \in Slots |-> IdleFrame]
    /\ raced = {}
    /\ hist = <<>>
    /\ ret = [op |-> "none", ok |-> TRUE]

NextAnonymous ==
    \/ \E i \in AnonIdentities : Store(i)
    \/ \E i \in AnonIdentities : GetCurrentUser(i)
    \/ \E n \in GoodUsernames : UsernameRefuse(1, None, n)
    \/ \E n \in BadUsernames : UsernameRefuse(1, 2, n)
    \/ \E n \in GoodUsernames : UsernameBegin(1, 2, n)
    \/ UsernameLookup(1)
    \/ UsernamePatch(1)
    \/ \E i \in {None, 2}, p \in AnonPostIds : AddComment(i, p, AnonContent)
    \/ \E i \in {None, 1, 2}, c \in AnonCommentIds : DeleteComment(i, c)
    \/ \E i \in AnonIdentities : GetDailyViews(i)
    \/ \E i \in AnonIdentities : GetAnalytics(i)
    \/ \E i \in AnonIdentities, n \in AnonLimits : GetRecentActivity(i, n)
    \/ \E i \in AnonIdentities : GetPostsWithAnalytics(i, None)
    \/ \E i \in AnonIdentities, u \in {None, 2} : HasUserLiked(i, u, 1)
    \/ \E i \in AnonIdentities : GetSuggestedUsers(i, None)

SpecAnonymous == InitAnonymous /\ [][NextAnonymous]_vars

\* the caller a returned value or thrown error was made for
CallerOf(r) == IF "identity" \in DOMAIN r THEN r.identity ELSE r.call.identity

StrictOps ==
    {"getDailyViews", "addComment", "deleteComment", "updateUsername",
     "getCurrentUser", "store"}

\* the users an anonymous caller may be offered: with a username and a
\* published post
Offered == {u \in users : /\ UsernameOf(names, u) # None
                          /\ \E i \in DOMAIN posts : /\ posts[i].authorId = u
                                                     /\ posts[i].status = "published"}

\* C19: a call without an identity writes nothing to any table; getDailyViews,
\* addComment, deleteComment, updateUsername, getCurrentUser and store throw
\* an error; getAnalytics returns null, getRecentActivity and
\* getPostsWithAnalytics return an empty list, hasUserLiked without an
\* explicit user returns false, and getSuggestedUsers returns the users that
\* have a username and a published post.
C19_UnauthenticatedCalls ==
    [][(ret'.op # "none" /\ CallerOf(ret') = None) =>
          /\ UNCHANGED <<users, names, follows, comments, dailyStats, posts, likes>>
          /\ (ret'.op \in StrictOps) => (~ret'.ok /\ "error" \in DOMAIN ret')
          /\ (ret'.op = "getAnalytics") => (ret'.ok /\ ret'.isNull)
          /\ (ret'.op \in {"getRecentActivity", "getPostsWithAnalytics"})
                => (ret'.ok /\ ret'.items = <<>>)
          /\ (ret'.op = "hasUserLiked" /\ ret'.call.userId = None)
                => (ret'.ok /\ ~ret'.liked)
          /\ (ret'.op = "getSuggestedUsers")
                => /\ ret'.ok
                   /\ Offered # {}
                   /\ {ret'.users[i].id : i \in DOMAIN ret'.users} = Offered
       ]_vars

\* an anonymous caller was refused a valid comment on a published post, in a
\* store that holds comments and a user stored since the start
C19_Witness ==
    /\ ret.op = "addComment"
    /\ ret.call.identity = None
    /\ ~ret.ok
    /\ IsPublished(posts, ret.call.postId)
    /\ ValidContent(ret.call.content)
    /\ Len(comments) >= 2
    /\ 3 \in users

\* ----------------------------------------------------------- SpecFollows
\* getSuggestedUsers on every store of four users: users 3 and 4 with or
\* without a username, each user with no post, a draft or a published post,
\* and any of four follow documents
FollowUsers == {1, 2, 3, 4}
FollowCallers == {None, 1, 2, 5}
PostStates == {"none", "draft", "published"}
FollowDocs == {<<1, 2, FirstDay>>, <<1, 3, FirstDay>>, <<2, 1, FirstDay>>,
               <<3, 4, FirstDay>>}

\* the posts table when each user created the post drawn for them
PostsDrawn(st) ==
    LET authors == SelectSeq(InOrder(FollowUsers), LAMBDA u : st[u] # "none")
    IN [i \in 1..Len(authors) |-> NewPost(i, authors[i], st[authors[i]], FirstDay)]

InitFollows ==
    /\ users = FollowUsers
    /\ \E unnamed \in SUBSET {3, 4} : names = {<<u, u>> : u \in FollowUsers \ unnamed}
    /\ follows \in SUBSET FollowDocs
    /\ comments = <<>> /\ dailyStats = {}
    /\ now = FirstDay
    /\ \E st \in [FollowUsers -> PostStates] :
          /\ posts = PostsDrawn(st)
          /\ nextId = [posts |-> Len(PostsDrawn(st)) + 1, likes |-> 1, comments |-> 1,
                       stats |-> 1]
    /\ likes = {}
    /\ calls = [c \in Slots |-> IdleFrame]
    /\ raced = {}
    /\ hist = <<>>
    /\ ret = [op |-> "none", ok |-> TRUE]

NextFollows ==
    \E i \in FollowCallers, l \in {None, 1} : GetSuggestedUsers(i, l)

SpecFollows == InitFollows /\ [][NextFollows]_vars

\* C20: no user returned by getSuggestedUsers is the caller, is followed by
\* the caller, lacks a username, or has no published post.
C20_SuggestionsExclude ==
    (ret.op = "getSuggestedUsers") =>
        \A k \in DOMAIN ret.users :
            LET u == ret.users[k].id
            IN /\ u # ret.identity
               /\ ~\E f \in follows : f[1] = ret.identity /\ f[2] = u
               /\ UsernameOf(names, u) # None
               /\ PublishedBy(u) # {}

\* caller 1 has a username and a published post and follows user 2, who has
\* both too; user 3 has a published post and no username; user 4 is returned
C20_Witness ==
    /\ ret.op = "getSuggestedUsers"
    /\ ret.identity = 1
    /\ UsernameOf(names, 1) # None /\ PublishedBy(1) # {}
    /\ \E f \in follows : f[1] = 1 /\ f[2] = 2
    /\ UsernameOf(names, 2) # None /\ PublishedBy(2) # {}
    /\ UsernameOf(names, 3) = None /\ PublishedBy(3) # {}
    /\ Len(ret.users) = 1
    /\ ret.users[1].id = 4

\* ------------------------------------------------------------ SpecDrafts
\* user 1 saves, publishes and unpublishes posts with one of two values of
\* the fields, user 2 saves a draft, post 1 is viewed, and a day may pass
DraftUsers == {1, 2}
DraftFields == {FirstFields, FirstFields + 1}

InitDrafts ==
    /\ names = {} /\ follows = {} /\ comments = <<>> /\ dailyStats = {}
    /\ users = DraftUsers
    /\ now = FirstDay
    /\ posts = <<>>
    /\ likes = {}
    /\ nextId = [posts |-> 1, likes |-> 1, comments |-> 1, stats |-> 1]
    /\ calls = [c \in Slots |-> IdleFrame]
    /\ raced = {}
    /\ hist = <<>>
    /\ ret = [op |-> "none", ok |-> TRUE]

NextDrafts ==
    \/ \E st \in {"draft", "published"}, f \in DraftFields : Create(1, st, f)
    \/ Create(2, "draft", FirstFields)
    \/ \E id \in PostIds : Update(1, id, "draft")
    \/ IncrementViewCount(1)
    \/ Tick(FirstDay + MaxTicks)

SpecDrafts == InitDrafts /\ [][NextDrafts]_vars

\* a posts.create call with status draft returns in this step, made by an
\* author who had a draft
SavesDraftAgain ==
    /\ now' = now
    /\ ret'.op = "create"
    /\ ret'.call.status = "draft"
    /\ DraftsOf(posts, ret'.call.identity) # {}

\* C22 (as stated): posts.create with status draft by an author who has a
\* draft inserts no post, returns the id of a draft the author had, and
\* changes that draft only: its fields are the new ones, and its status,
\* createdAt, viewCount and likeCount are as before.
C22_DraftSaveReusesDraft ==
    [][SavesDraftAgain =>
          /\ ret'.ok
          /\ Len(posts') = Len(posts)
          /\ \E i \in DraftsOf(posts, ret'.call.identity) :
                /\ ret'.id = posts[i].id
                /\ posts'[i].fields = ret'.call.fields
                /\ posts'[i].status = "draft"
                /\ posts'[i].createdAt = posts[i].createdAt
                /\ posts'[i].viewCount = posts[i].viewCount
                /\ posts'[i].likeCount = posts[i].likeCount
                /\ \A j \in DOMAIN posts : j # i => posts'[j] = posts[j]]_vars

\* ----------------------------------------------------------- SpecRanking
\* getSuggestedUsers on stores of four users with usernames: users 2, 3 and 4
\* each published a post 7 or 6 days ago, viewed and liked or not; user 2 may
\* have published CandidatePosts posts before, the first of them viewed or
\* not; users 3, 4 and 2 may follow users 2, 2 and 3
RankUsers == {1, 2, 3, 4}
RankAuthors == {2, 3, 4}
RankCallers == {None, 1}
RankCounts == {0, 1}
RankToday == 10
RankDays == {RankToday - WeekDays, RankToday - WeekDays + 1}
RankFollows == {<<3, 2, 1>>, <<4, 2, 1>>, <<2, 3, 1>>}

\* the posts of user 2 before the drawn ones: none (v = None) or
\* CandidatePosts of them, the first with v - 1 views
EarlierPosts(v) ==
    IF v = None THEN <<>>
    ELSE [i \in 1..CandidatePosts |->
             [NewPost(i, 2, "published", 1) EXCEPT !.viewCount = IF i = 1 THEN v - 1 ELSE 0]]

\* the drawn posts, in the order of their days, with ids from n + 1 on
DrawnPosts(day, views, liked, n) ==
    LET order == SelectSeq(InOrder(RankAuthors), LAMBDA u : day[u] # RankToday - WeekDays + 1)
                 \o SelectSeq(InOrder(RankAuthors), LAMBDA u : day[u] = RankToday - WeekDays + 1)
    IN [i \in 1..Len(order) |->
           [NewPost(n + i, order[i], "published", day[order[i]])
               EXCEPT !.viewCount = views[order[i]], !.likeCount = liked[order[i]]]]

InitRanking ==
    /\ users = RankUsers
    /\ names = {<<u, u>> : u \in RankUsers}
    /\ follows \in SUBSET RankFollows
    /\ comments = <<>> /\ dailyStats = {}
    /\ now = RankToday
    /\ \E v \in {None, 1, 2}, day \in [RankAuthors -> RankDays],
          views \in [RankAuthors -> RankCounts], liked \in [RankAuthors -> RankCounts] :
          /\ posts = EarlierPosts(v) \o DrawnPosts(day, views, liked, Len(EarlierPosts(v)))
          /\ nextId = [posts |-> Len(EarlierPosts(v)) + Cardinality(RankAuthors) + 1,
                       likes |-> 1, comments |-> 1, stats |-> 1]
    /\ likes = {}
    /\ calls = [c \in Slots |-> IdleFrame]
    /\ raced = {}
    /\ hist = <<>>
    /\ ret = [op |-> "none", ok |-> TRUE]

NextRanking ==
    \E i \in RankCallers, l \in {None, 2} : GetSuggestedUsers(i, l)

SpecRanking == InitRanking /\ [][NextRanking]_vars

\* the places in posts of the at most 5 published posts of u created last
LatestPublished(u) ==
    {i \in PublishedBy(u) : Cardinality({j \in PublishedBy(u) : j > i}) < 5}

RECURSIVE SumAt(_, _)
SumAt(places, field) ==
    IF places = {} THEN 0
    ELSE LET i == CHOOSE i \in places : TRUE
         IN posts[i][field] + SumAt(places \ {i}, field)

\* the suggestion was last active later than 7 days before the call
IsRecent(x) == x.lastPostAt > ret.at - 7

\* C24: in the result of getSuggestedUsers every entry whose lastPostAt is
\* within the last 7 days comes before every entry whose lastPostAt is not,
\* entries of one kind are in non-increasing engagementScore order, and the
\* engagementScore of an entry is the views plus 5 times the likes of the
\* user's at most 5 latest published posts plus 10 times the user's
\* followers.
C24_TwoLevelOrder ==
    ret.op = "getSuggestedUsers" =>
        /\ \A j, k \in DOMAIN ret.users :
              j < k =>
                 /\ IsRecent(ret.users[k]) => IsRecent(ret.users[j])
                 /\ (IsRecent(ret.users[j]) = IsRecent(ret.users[k]))
                       => ret.users[j].engagementScore >= ret.users[k].engagementScore
        /\ \A k \in DOMAIN ret.users :
              ret.users[k].engagementScore =
                  SumAt(LatestPublished(ret.users[k].id), "viewCount")
                  + 5 * SumAt(LatestPublished(ret.users[k].id), "likeCount")
                  + 10 * Cardinality({f \in follows : f[2] = ret.users[k].id})

\* three users were returned: first one last active 6 days ago, then two last
\* active 7 days ago, both with a higher engagementScore than the first and
\* the second with a higher one than the third; a sixth post of user 2 has a
\* view that does not count
C24_Witness ==
    /\ ret.op = "getSuggestedUsers"
    /\ Len(ret.users) = 3
    /\ IsRecent(ret.users[1]) /\ ~IsRecent(ret.users[2]) /\ ~IsRecent(ret.users[3])
    /\ ret.users[1].engagementScore < ret.users[3].engagementScore
    /\ ret.users[3].engagementScore < ret.users[2].engagementScore
    /\ Cardinality(PublishedBy(2)) = 6
    /\ posts[1].viewCount = 1
    /\ \E f \in follows : f[2] = 2

\* like records of a post
LikesOn(p) == {l \in likes : l.postId = p}

\* no toggleLike call is in flight
Quiescent == \A c \in Slots : ~InFlight(c)

\* ------------------------------------------------------- SpecSerialLikes
\* toggleLike calls that run one after the other (one slot), on a post that
\* posts.create inserted; callers name user 1 or 2, or name nobody and are
\* unauthenticated (None), without a record (3) or user 1
SerialUsers == {1, 2}
SerialIdentities == {None, 1, 3}

InitSerialLikes ==
    /\ names = {} /\ follows = {} /\ comments = <<>> /\ dailyStats = {}
    /\ users = SerialUsers
    /\ now = FirstDay
    /\ posts = <<>>
    /\ likes = {}
    /\ nextId = [posts |-> 1, likes |-> 1, comments |-> 1, stats |-> 1]
    /\ calls = [c \in Slots |-> IdleFrame]
    /\ raced = {}
    /\ hist = <<>>
    /\ ret = [op |-> "none", ok |-> TRUE]

NextSerialLikes ==
    \/ \E st \in {"draft", "published"} : Create(1, st, FirstFields)
    \/ \E p \in PostIds : ToggleLikeNotFound(1, p)
    \/ \E p \in PostIds, u \in SerialUsers : ToggleLikeBegin(1, p, u, None)
    \/ \E p \in PostIds, i \in SerialIdentities : ToggleLikeBegin(1, p, None, i)
    \/ ToggleLikeCheck(1)
    \/ ToggleLikeWrite(1)
    \/ ToggleLikePatch(1)

SpecSerialLikes == InitSerialLikes /\ [][NextSerialLikes]_vars

\* C25: with toggleLike calls that do not interleave, whenever no call is in
\* flight the likeCount of every post is the number of like records of the
\* post.
C25_LikeCountIsNumberOfLikes ==
    Quiescent =>
        \A i \in DOMAIN posts : posts[i].likeCount = Cardinality(LikesOn(posts[i].id))

\* after likes and an unlike of known users and a like without a user, the
\* post holds two likes, one of them without a user
C25_Witness ==
    /\ Quiescent
    /\ nextId.likes > 3
    /\ \E i \in DOMAIN posts :
          /\ posts[i].likeCount = 2
          /\ \E l \in LikesOn(posts[i].id) : l.userId = None
          /\ \E l \in LikesOn(posts[i].id) : l.userId # None

\* DailyStats records of a post
StatsOf(p) == {r \in dailyStats : r.postId = p}

\* the viewCount of every post is the sum of the views of its records
ViewCountsAddUp ==
    \A i \in DOMAIN posts : posts[i].viewCount = SumViews(StatsOf(posts[i].id))

\* C26: with incrementViewCount calls that do not interleave, the viewCount
\* of every post is the sum of the views of its DailyStats records after
\* every step (no post exists at the start), and a call on a post that is
\* missing or not published changes no post and no DailyStats record.
C26_ViewCountIsSumOfDailyViews ==
    [][/\ ViewCountsAddUp'
       /\ (/\ now' = now
           /\ ret'.op = "incrementViewCount"
           /\ ~(/\ PostExists(posts, ret'.postId)
                /\ PostOf(posts, ret'.postId).status = "published"))
          => (posts' = posts /\ dailyStats' = dailyStats /\ ~ret'.success)]_vars

\* post 1 was viewed on two days, is a draft now, and the last call on it
\* did nothing
C26_Witness ==
    /\ ret.op = "incrementViewCount" /\ ~ret.success
    /\ PostExists(posts, ret.postId)
    /\ PostOf(posts, ret.postId).status = "draft"
    /\ PostOf(posts, ret.postId).viewCount = 2
    /\ Cardinality(StatsOf(ret.postId)) = 2

\* ----------------------------------------------------------- SpecOrphans
\* posts are deleted in a store in use (that of SpecAnonymous: post 1 of
\* user 1 has a like, a comment of user 2 and a DailyStats record); comments
\* are added and deleted and posts viewed before and after
OrphanCallers == {None, 1, 2, 3}
OrphanPostIds == {1, 2, 3}

NextOrphans ==
    \/ \E i \in OrphanCallers, id \in OrphanPostIds : DeletePost(i, id)
    \/ \E i \in AnonUsers, p \in OrphanPostIds : AddComment(i, p, AnonContent)
    \/ \E i \in OrphanCallers, c \in 1..MaxCommentInserts : DeleteComment(i, c)
    \/ \E p \in OrphanPostIds : IncrementViewCount(p)

SpecOrphans == InitAnonymous /\ [][NextOrphans]_vars

\* comment c is stored and its post is not
IsOrphan(c) == CommentExists(comments, c) /\ ~PostExists(posts, CommentOf(comments, c).postId)

\* C29: a posts.deletePost call that succeeds removes the post document only:
\* the other posts and every like, comment and DailyStats record stay as they
\* are; a deleteComment call that finds a comment whose post is gone fails
\* with "Post not found" and removes nothing, also when the caller wrote the
\* comment.
C29_DeletePostLeavesOrphans ==
    [][/\ (ret'.op = "deletePost" /\ ret'.ok /\ PostExists(posts, ret'.id)) =>
             /\ posts' = SelectSeq(posts, LAMBDA d : d.id # ret'.id)
             /\ likes' = likes /\ comments' = comments /\ dailyStats' = dailyStats
       /\ (/\ ret'.op = "deleteComment"
           /\ "commentId" \in DOMAIN ret'
           /\ IsOrphan(ret'.commentId)) =>
             /\ ~ret'.ok
             /\ ret'.error = "Post not found"
             /\ comments' = comments]_vars

\* the author of a comment was refused its deletion: the post is gone, and
\* its like, its comment and its DailyStats record are still stored
C29_Witness ==
    /\ ret.op = "deleteComment" /\ ~ret.ok /\ ret.error = "Post not found"
    /\ IsOrphan(ret.commentId)
    /\ CommentOf(comments, ret.commentId).authorId = ret.identity
    /\ \E l \in likes : l.postId = CommentOf(comments, ret.commentId).postId
    /\ \E r \in dailyStats : r.postId = CommentOf(comments, ret.commentId).postId

\* -------------------------------------------------------------- SpecFeed
\* the store after users 1 and 2 created n posts: at most one of them a
\* draft, at most one of them by user 2, the others published by user 1
FeedUsers == {1, 2}
FeedLimits == {None, 1, 2, DefaultLimit, MaxFeedPosts - 1}

FeedPosts(n, d, g) ==
    [i \in 1..n |-> NewPost(i, IF i = g THEN 2 ELSE 1,
                            IF i = d THEN "draft" ELSE "published", FirstDay)]

InitFeed ==
    /\ names = {} /\ follows = {} /\ comments = <<>> /\ dailyStats = {}
    /\ users = FeedUsers
    /\ now = FirstDay
    /\ \E n \in 0..MaxFeedPosts : \E d, g \in 0..n :
          /\ posts = FeedPosts(n, d, g)
          /\ nextId = [posts |-> n + 1, likes |-> 1, comments |-> 1, stats |-> 1]
    /\ likes = {}
    /\ calls = [c \in Slots |-> IdleFrame]
    /\ raced = {}
    /\ hist = <<>>
    /\ ret = [op |-> "none", ok |-> TRUE]

NextFeed ==
    \/ \E l \in FeedLimits : GetFeed(l)
    \/ \E u \in FeedUsers : RemoveUser(u)

SpecFeed == InitFeed /\ [][NextFeed]_vars

NumPublished == Cardinality({i \in DOMAIN posts : posts[i].status = "published"})

\* C6 (as stated): getFeed with limit L returns hasMore = true exactly when
\* more than L published posts exist, and exactly min(L, published) posts.
C6_FeedExactPage ==
    ret.op = "getFeed" =>
        /\ ret.hasMore = (NumPublished > ret.limit)
        /\ Len(ret.posts) = Min(ret.limit, NumPublished)

\* C6 (amended): with L the limit given, or 10 when the limit is 0 or
\* absent: hasMore = true exactly when more than L published posts exist;
\* every post returned is a published post whose author document exists, at
\* most min(L, published) posts are returned, and exactly that many when
\* the author document of every published post exists.
C6_FeedPage ==
    ret.op = "getFeed" =>
        LET L == IF ret.limit = 0 THEN DefaultLimit ELSE ret.limit
        IN /\ ret.hasMore = (NumPublished > L)
           /\ Len(ret.posts) <= Min(L, NumPublished)
           /\ \A k \in DOMAIN ret.posts :
                 /\ IsPublished(posts, ret.posts[k])
                 /\ PostOf(posts, ret.posts[k]).authorId \in users
           /\ (\A i \in DOMAIN posts :
                  posts[i].status = "published" => posts[i].authorId \in users)
                 => Len(ret.posts) = Min(L, NumPublished)

\* getFeed({limit: 10}) against exactly 11 published posts, whose author
\* documents all exist, returned hasMore = true and 10 posts
C6_Witness ==
    /\ ret.op = "getFeed" /\ ret.limit = 10
    /\ NumPublished = 11
    /\ \A i \in DOMAIN posts : posts[i].authorId \in users
    /\ ret.hasMore /\ Len(ret.posts) = 10

\* ------------------------------------------------------------- SpecLikes
\* user 1 has a record, identity 3 has none; user 1 created post 1 published
\* and post 2 as a draft, post 3 does not exist
LikeUsers == {1}
LikeIdentities == {None, 1, 3}
LikePostIds == {1, 2, 3}

InitLikes ==
    /\ names = {} /\ follows = {} /\ comments = <<>> /\ dailyStats = {}
    /\ users = LikeUsers
    /\ now = 1
    /\ posts = <<NewPost(1, 1, "published", 1), NewPost(2, 1, "draft", 1)>>
    /\ likes = {}
    /\ nextId = [posts |-> 3, likes |-> 1, comments |-> 1, stats |-> 1]
    /\ calls = [c \in Slots |-> IdleFrame]
    /\ raced = {}
    /\ hist = <<>>
    /\ ret = [op |-> "none", ok |-> TRUE]

NextLikes ==
    \E c \in Slots :
        \/ \E p \in LikePostIds : ToggleLikeNotFound(c, p)
        \/ \E p \in LikePostIds, u \in LikeUsers : ToggleLikeBegin(c, p, u, None)
        \/ \E p \in LikePostIds, i \in LikeIdentities : ToggleLikeBegin(c, p, None, i)
        \/ ToggleLikeCheck(c)
        \/ ToggleLikeWrite(c)
        \/ ToggleLikePatch(c)

SpecLikes == InitLikes /\ [][NextLikes]_vars

\* two toggleLike calls of one known user on one post ran back to back,
\* each uninterrupted
TwoTogglesInARow ==
    /\ Len(hist) = 2
    /\ hist[1].postId = hist[2].postId
    /\ hist[1].userId = hist[2].userId
    /\ hist[1].userId # None

\* C1 (as stated): two consecutive toggleLike calls for the same (post, user)
\* leave the liked state and likeCount as they were before the first call,
\* whatever the starting likeCount and like records are.
C1_ToggleTwiceRestores ==
    TwoTogglesInARow =>
        /\ hist[2].likedAfter = hist[1].likedBefore
        /\ hist[2].countAfter = hist[1].countBefore

\* C1 (amended): two consecutive toggleLike calls for the same (post, user)
\* restore the liked state; they restore likeCount unless the first call
\* removed a like from a post whose likeCount was 0 (floored), and then
\* likeCount ends at 1.
C1_ToggleTwiceRestoresUnlessFloored ==
    TwoTogglesInARow =>
        /\ hist[2].likedAfter = hist[1].likedBefore
        /\ hist[2].countAfter =
               IF hist[1].likedBefore /\ hist[1].countBefore = 0
               THEN 1 ELSE hist[1].countBefore

\* two calls in a row that started from a like on a post with likeCount 0
C1_Witness ==
    /\ TwoTogglesInARow
    /\ hist[1].likedBefore
    /\ hist[1].countBefore = 0

\* C2: every post has likeCount >= 0, and a toggleLike that removes a like
\* from a post it read with likeCount 0 stores and returns likeCount 0.
C2_LikeCountNeverNegative ==
    /\ \A i \in DOMAIN posts : posts[i].likeCount >= 0
    /\ (ret.op = "toggleLike" /\ ret.ok /\ ~ret.liked /\ ret.read = 0) =>
           (ret.likeCount = 0 /\ ret.stored = 0)

\* a toggleLike has removed a like from a post whose likeCount was 0
C2_Witness ==
    ret.op = "toggleLike" /\ ret.ok /\ ~ret.liked /\ ret.read = 0

\* C3 (as stated): at most one like per (post, known user), also when the
\* steps of calls for the same pair interleave.
C3_OneLikePerPair ==
    \A l1, l2 \in likes :
        (l1.postId = l2.postId /\ l1.userId = l2.userId /\ l1.userId # None)
            => l1.id = l2.id

\* C3 (amended): at most one like per (post, known user) as long as no two
\* toggleLike calls for that pair were in flight at the same time.
C3_OneLikePerUnracedPair ==
    \A l1, l2 \in likes :
        (/\ l1.postId = l2.postId /\ l1.userId = l2.userId /\ l1.userId # None
         /\ <<l1.postId, l1.userId>> \notin raced)
            => l1.id = l2.id

\* a known user's like is stored after a second call for the pair re-liked,
\* and no two calls for the pair ever overlapped
C3_Witness ==
    /\ TwoTogglesInARow
    /\ hist[2].likedAfter
    /\ <<hist[2].postId, hist[2].userId>> \notin raced
    /\ LikesOf(likes, hist[2].postId, hist[2].userId) # {}

\* a toggleLike call of slot c returns in this step
Returns(c) == calls[c].pc = "patch" /\ calls'[c].pc = "idle"

\* C15 (as stated): when a toggleLike call returns, the liked it returns is
\* whether a like of its user is stored for the post, and the likeCount it
\* returns is the likeCount stored in the post.
C15_ReturnReflectsState ==
    [][\A c \in Slots : Returns(c) =>
          /\ ret'.liked = (LikesOf(likes', ret'.postId, ret'.userId) # {})
          /\ ret'.likeCount = PostOf(posts', ret'.postId).likeCount]_vars

\* C15 (amended): when a toggleLike call returns, the likeCount it returns
\* is the likeCount stored in the post, and, if no two calls for its
\* (post, user) pair were ever in flight at once, the liked it returns is
\* whether a like of its user is stored for the post.
C15_ReturnReflectsUnracedState ==
    [][\A c \in Slots : Returns(c) =>
          /\ ret'.op = "toggleLike" /\ ret'.ok
          /\ ret'.postId = calls[c].postId /\ ret'.userId = calls[c].userId
          /\ ret'.likeCount = PostOf(posts', ret'.postId).likeCount
          /\ <<ret'.postId, ret'.userId>> \notin raced
                => ret'.liked = (LikesOf(likes', ret'.postId, ret'.userId) # {})]_vars

\* a call of a known user returned liked = false with likeCount 0 while
\* another user's call was in flight, and no like of the user is stored
C15_Witness ==
    /\ ret.op = "toggleLike" /\ ret.ok
    /\ ret.userId # None
    /\ ~ret.liked /\ ret.likeCount = 0
    /\ <<ret.postId, ret.userId>> \notin raced
    /\ LikesOf(likes, ret.postId, ret.userId) = {}
    /\ PostOf(posts, ret.postId).likeCount = ret.likeCount
    /\ \E c \in Slots : InFlight(c)

\* C16: a toggleLike call on a post that does not exist or is not published
\* fails with an error and leaves the likes and the posts as they were (it
\* is the only step that moves no call forward); no call on such a post
\* gets past the check.
C16_UnpublishedLikeRefused ==
    [][/\ (\A c \in Slots : calls'[c].pc = calls[c].pc) =>
             /\ ret'.op = "toggleLike" /\ ~ret'.ok
             /\ ~(/\ PostExists(posts, ret'.call.postId)
                  /\ PostOf(posts, ret'.call.postId).status = "published")
             /\ likes' = likes /\ posts' = posts
       /\ \A c \in Slots : (calls[c].pc = "idle" /\ calls'[c].pc # "idle") =>
             /\ PostExists(posts, calls'[c].postId)
             /\ PostOf(posts, calls'[c].postId).status = "published"
             /\ likes' = likes /\ posts' = posts]_vars

\* a call on the draft post was refused while a like is stored and another
\* call is in flight
C16_Witness ==
    /\ ret.op = "toggleLike" /\ ~ret.ok
    /\ ret.error = "Post not found or not published"
    /\ PostExists(posts, ret.call.postId)
    /\ likes # {}
    /\ \E c \in Slots : InFlight(c)

\* a toggleLike call of slot c, made without a user, writes in this step
WritesWithoutUser(c) ==
    calls[c].pc = "write" /\ calls'[c].pc # "write" /\ calls[c].userId = None

\* a toggleLike call of slot c, made without a user, returns in this step
ReturnsWithoutUser(c) == Returns(c) /\ calls[c].userId = None

\* C28 (as stated): a toggleLike call without a user removes no like and
\* inserts one like without a user for its post, and when it returns it has
\* raised the likeCount of the post by exactly 1 and returns liked = true.
C28_AnonymousLikeAddsOne ==
    [][\A c \in Slots :
          /\ WritesWithoutUser(c) =>
                \E l \in likes' \ likes :
                    /\ likes' = likes \cup {l}
                    /\ l.postId = calls[c].postId /\ l.userId = None
          /\ ReturnsWithoutUser(c) =>
                /\ ret'.ok /\ ret'.liked
                /\ PostOf(posts', calls[c].postId).likeCount
                      = PostOf(posts, calls[c].postId).likeCount + 1]_vars

\* C28 (amended): a toggleLike call without a user removes no like and
\* inserts one like without a user for its post, and when it returns it
\* returns liked = true and has stored the likeCount it read plus 1; that is
\* the likeCount of the post before the return plus 1 if no step of another
\* call ran while the call was in flight.
C28_AnonymousLikeAddsOneAlone ==
    [][\A c \in Slots :
          /\ WritesWithoutUser(c) =>
                \E l \in likes' \ likes :
                    /\ likes' = likes \cup {l}
                    /\ l.postId = calls[c].postId /\ l.userId = None
          /\ ReturnsWithoutUser(c) =>
                /\ ret'.ok /\ ret'.liked
                /\ ret'.likeCount = calls[c].likeCount + 1
                /\ PostOf(posts', calls[c].postId).likeCount = calls[c].likeCount + 1
                /\ calls[c].solo =>
                      PostOf(posts', calls[c].postId).likeCount
                          = PostOf(posts, calls[c].postId).likeCount + 1]_vars

\* two calls without a user ran one after the other: two likes without a
\* user, likeCount 2
C28_Witness ==
    /\ Len(hist) = 2
    /\ hist[1].userId = None /\ hist[2].userId = None
    /\ hist[1].postId = hist[2].postId
    /\ hist[2].countAfter = hist[1].countBefore + 2
    /\ Cardinality({l \in LikesOn(hist[2].postId) : l.userId = None}) = 2
    /\ ret.op = "toggleLike" /\ ret.ok /\ ret.liked /\ ret.userId = None

\* -------------------------------------------------------- SpecLikeReads
\* the calls of SpecLikes, and hasUserLiked for a user named in the call
NextLikeReads ==
    \/ NextLikes
    \/ \E u \in LikeUsers, p \in LikePostIds : HasUserLiked(None, u, p)

SpecLikeReads == InitLikes /\ [][NextLikeReads]_vars

\* a hasUserLiked call for a known user and a published post returns or
\* throws in this step
ReadsLike ==
    /\ ret'.op = "hasUserLiked"
    /\ ret' # ret
    /\ ret'.call.userId \in users
    /\ PostExists(posts, ret'.call.postId)
    /\ PostOf(posts, ret'.call.postId).status = "published"

\* the last return is that of a successful toggleLike for the pair of the
\* hasUserLiked call of this step, and no toggleLike call for the pair has
\* begun since
RightAfterToggle ==
    /\ ret.op = "toggleLike" /\ ret.ok
    /\ ret.postId = ret'.call.postId /\ ret.userId = ret'.call.userId
    /\ \A c \in Slots :
          ~(/\ InFlight(c)
            /\ calls[c].postId = ret.postId /\ calls[c].userId = ret.userId)

\* C30 (as stated): hasUserLiked for a known user and a published post
\* returns true exactly when a like record of the pair is stored, and right
\* after a successful toggleLike for the pair it returns the liked value
\* that call returned.
C30_HasUserLikedAgrees ==
    [][ReadsLike =>
          /\ ret'.ok
          /\ ret'.liked = (LikesOf(likes, ret'.call.postId, ret'.call.userId) # {})
          /\ RightAfterToggle => ret'.liked = ret.liked]_vars

\* C30 (amended): if no two toggleLike calls for the pair were ever in
\* flight at once, hasUserLiked for a known user and a published post
\* returns true exactly when a like record of the pair is stored, and right
\* after a successful toggleLike for the pair it returns the liked value
\* that call returned.
C30_HasUserLikedAgreesUnraced ==
    [][(ReadsLike /\ <<ret'.call.postId, ret'.call.userId>> \notin raced) =>
          /\ ret'.ok
          /\ ret'.liked = (LikesOf(likes, ret'.call.postId, ret'.call.userId) # {})
          /\ RightAfterToggle => ret'.liked = ret.liked]_vars

\* hasUserLiked returned true after the user's second like of the post, with
\* no two calls of the pair ever in flight at once
C30_Witness ==
    /\ ret.op = "hasUserLiked" /\ ret.ok /\ ret.liked
    /\ ret.call.userId \in users
    /\ <<ret.call.postId, ret.call.userId>> \notin raced
    /\ Len(hist) = 2
    /\ hist[2].postId = ret.call.postId /\ hist[2].userId = ret.call.userId
    /\ hist[2].likedAfter
    /\ nextId.likes > 2

\* C21: with the steps of two toggleLike calls on one post interleaved, a
\* state with no call in flight is reached in which the post's likeCount
\* differs from the number of its like records (C21_Witness); such a state
\* is reached only for a post two calls held at once.
C21_LostUpdateOnlyWhenInterleaved ==
    Quiescent =>
        \A i \in DOMAIN posts :
            posts[i].likeCount # Cardinality(LikesOn(posts[i].id))
                => <<posts[i].id, None>> \in raced

\* the lost update: no call in flight, two like records of two callers and
\* likeCount 1
C21_Witness ==
    /\ Quiescent
    /\ \E i \in DOMAIN posts :
          /\ Cardinality(LikesOn(posts[i].id)) = 2
          /\ posts[i].likeCount = 1
          /\ <<posts[i].id, None>> \in raced

====
